---- MODULE Spec2Model ----
(***************************************************************************)
(* A model of the text-anchored XML splicing engine of word-mcp-live:      *)
(* the run-text indexer, the comment writer, the tracked-change            *)
(* operations (replace / insert / delete / accept / reject), the package   *)
(* rewriter and the tools-layer wrappers around them.                      *)
(*                                                                         *)
(* Text is a sequence of characters.  An XML element is a record           *)
(*   [tag, id, author, text, rpr, kids]                                    *)
(* where tag is                                                            *)
(*   "r"      a run with a w:t child (text-bearing run)                    *)
(*   "rDel"   a run whose text is stored in w:delText                      *)
(*   "rRef"   a run holding a w:commentReference (id = the reference's id) *)
(*   "rNone"  a run without any text child                                 *)
(*   "ins", "del"               tracked-change wrappers (kids = children)  *)
(*   "commentRangeStart", "commentRangeEnd"   comment range markers        *)
(*   "hyperlink"  a hyperlink wrapper (rid = the relationship it names)    *)
(* A paragraph is the sequence of its child elements, the document tree is *)
(* the sequence of its paragraphs.  Offsets into run text are the 0-based  *)
(* offsets of the source; positions in sequences are 1-based.              *)
(***************************************************************************)
EXTENDS Integers, Sequences, FiniteSets, TLC

VARIABLES
    file,     \* the package on disk: [exists, writable, entries]
    pc,       \* control position of the caller: "idle", or inside an operation
    loc,      \* locals of the operation in progress (track_replace_in_doc's loop)
    last,     \* the last completed call: operation, arguments, result, file before it
    calls,    \* number of calls started so far
    orig,     \* the package as it was before the first call
    fp,       \* indexer harness: the paragraph handed to the indexer
    fs,       \* indexer harness: the search text
    fm,       \* indexer harness: what the indexer returned
    race,     \* concurrent callers of one path: each one's position and locals, and the order of their file operations
    ext       \* the collaborators: the patched save routine of the document library, the undo record of the word processor

vars == <<file, pc, loc, last, calls, orig, fp, fs, fm, race, ext>>

-----------------------------------------------------------------------------
(* Bounds of the model *)

MaxRunLen == 2      \* characters per run in generated paragraphs
MaxRuns == 2        \* runs per generated paragraph
MaxSearchLen == 3   \* characters of a generated search text

Chars == {"a", "b"}

NoId == -1          \* the element has no w:id attribute
BadId == -2         \* the w:id attribute is not an integer

NoRpr == "none"     \* the run has no w:rPr child
EmptyRpr == "empty" \* the run has a w:rPr child without children

\* every text of at most n characters
Strs(n) == UNION {[1..k -> Chars] : k \in 0..n}

-----------------------------------------------------------------------------
(* Elements *)

Elem(tag, id, author, text, rpr, kids) == [tag |-> tag, id |-> id, author |-> author, text |-> text, rpr |-> rpr, kids |-> kids, rid |-> NoId]

IsRun(n) == n.tag \in {"r", "rDel", "rRef", "rNone"}

\* r.find(W("t")) is not None
HasT(n) == n.tag = "r"

_get_run_text(run) == IF run.tag = "r" THEN run.text ELSE <<>>

_get_run_rpr(run) == run.rpr

_make_run(text, rpr, is_del) == Elem(IF is_del THEN "rDel" ELSE "r", NoId, "", text, rpr, <<>>)

\* the element of a one-element set
Only(S) == CHOOSE x \in S : TRUE

RECURSIVE Concat(_)
Concat(ss) == IF ss = <<>> THEN <<>> ELSE Head(ss) \o Concat(Tail(ss))

Max2(a, b) == IF a >= b THEN a ELSE b

\* the element reached from a list of siblings by a path of child positions
RECURSIVE NodeAt(_, _)
NodeAt(kids, path) ==
    IF Len(path) = 1 THEN kids[path[1]]
    ELSE NodeAt(kids[path[1]].kids, Tail(path))

\* elem.iter(): the elements below a list of siblings, in document order
RECURSIVE IterAll(_)
IterAll(kids) ==
    IF kids = <<>> THEN <<>>
    ELSE <<Head(kids)>> \o IterAll(Head(kids).kids) \o IterAll(Tail(kids))

\* paths (document order) of the descendants whose tag is in `tags`
RECURSIVE PathsOf(_, _, _, _)
PathsOf(kids, prefix, i, tags) ==
    IF i > Len(kids) THEN <<>>
    ELSE (IF kids[i].tag \in tags THEN <<prefix \o <<i>>>> ELSE <<>>)
         \o PathsOf(kids[i].kids, prefix \o <<i>>, 1, tags)
         \o PathsOf(kids, prefix, i + 1, tags)

\* (mutation: the runs of deleted text are candidates too)
TextRunPathsWithDeleted(p) == PathsOf(p, <<>>, 1, {"r", "rDel"})

\* p.findall(".//w:r") filtered on "has a w:t child"
TextRunPaths(p) == PathsOf(p, <<>>, 1, {"r"})

SelectTexts(nodes) == [i \in 1..Len(nodes) |-> _get_run_text(nodes[i])]

\* _paragraph_text: the text of every w:t below the paragraph, in document order
_paragraph_text(p) == Concat(SelectTexts(IterAll(p)))

\* parent.remove(child) for the child at `path`
RECURSIVE RemoveAt(_, _)
RemoveAt(kids, path) ==
    IF Len(path) = 1
    THEN [i \in 1..(Len(kids) - 1) |-> IF i < path[1] THEN kids[i] ELSE kids[i + 1]]
    ELSE [kids EXCEPT ![path[1]].kids = RemoveAt(@, Tail(path))]

\* parent.insert(idx0, elem) with the 0-based index of the source; the parent
\* is the element at `ppath` (<<>> is the paragraph itself).  As in Python an
\* index past the end appends.
InsertInto(kids, idx0, elem) ==
    LET k == IF idx0 > Len(kids) THEN Len(kids) ELSE idx0
    IN  SubSeq(kids, 1, k) \o <<elem>> \o SubSeq(kids, k + 1, Len(kids))

RECURSIVE InsertAt(_, _, _, _)
InsertAt(kids, ppath, idx0, elem) ==
    IF ppath = <<>> THEN InsertInto(kids, idx0, elem)
    ELSE [kids EXCEPT ![ppath[1]].kids = InsertAt(@, Tail(ppath), idx0, elem)]

\* replaces the element at `path`
RECURSIVE SetAt(_, _, _)
SetAt(kids, path, elem) ==
    IF Len(path) = 1 THEN [kids EXCEPT ![path[1]] = elem]
    ELSE [kids EXCEPT ![path[1]].kids = SetAt(@, Tail(path), elem)]

ParentPath(path) == SubSeq(path, 1, Len(path) - 1)

\* list(parent).index(child), 0-based
IndexInParent(path) == path[Len(path)] - 1

-----------------------------------------------------------------------------
(* Run-text indexer: _find_text_in_paragraph *)

\* str.find: 0-based position of the first occurrence, -1 when there is none
FindFrom(full, s, pos) ==
    LET hits == {q \in pos..(Len(full) - Len(s)) : SubSeq(full, q + 1, q + Len(s)) = s}
    IN  IF hits = {} THEN -1 ELSE CHOOSE q \in hits : \A r \in hits : q <= r

\* (mutation: the search starts at position 1)
StrFindSkipsFirst(full, s) == FindFrom(full, s, 1)

StrFind(full, s) == FindFrom(full, s, 0)

\* char_map: for every character of the concatenation, <<run index, offset in run>>
\* (both 0-based)
RECURSIVE CharMap(_, _)
CharMap(texts, ri) ==
    IF ri > Len(texts) THEN <<>>
    ELSE [ci \in 1..Len(texts[ri]) |-> <<ri - 1, ci - 1>>] \o CharMap(texts, ri + 1)

None == <<>>

\* lines 115-126: the match at position pos of the concatenated text
MatchAt(runs, texts, char_map, pos, search_text) ==
    IF pos = -1 THEN None
    ELSE LET start == char_map[pos + 1]
             end == char_map[pos + Len(search_text)]
         IN  [k \in 1..(end[1] - start[1] + 1) |->
                LET ri == start[1] + k - 1
                IN  [run |-> runs[ri + 1],
                     s |-> IF ri = start[1] THEN start[2] ELSE 0,
                     e |-> IF ri = end[1] THEN end[2] + 1 ELSE Len(texts[ri + 1])]]

\* lines 104-113 on the texts of the text-bearing runs
FindInTexts(runs, texts, search_text) ==
    Only({MatchAt(runs, texts, char_map, pos, search_text) : char_map \in {CharMap(texts, 1)}, pos \in {Only({StrFind(full_text, search_text) : full_text \in {Concat(texts)}})}})

\* the match: a sequence of [run |-> path of the run, s |-> start, e |-> end],
\* or None
_find_text_in_paragraph(p, search_text) ==
    Only({IF runs = <<>> THEN None
          ELSE Only({FindInTexts(runs, texts, search_text) : texts \in {[i \in 1..Len(runs) |-> _get_run_text(NodeAt(p, runs[i]))]}})
          : runs \in {TextRunPaths(p)}})

-----------------------------------------------------------------------------
(* The package: a zip archive is the sequence of its entries [name, data].  *)
(* The data of word/document.xml is the sequence of paragraphs [kids], of   *)
(* word/comments.xml the sequence of comment records, of the relationship   *)
(* manifest the sequence of relationships, of [Content_Types].xml the       *)
(* sequence of overrides; any other entry holds opaque bytes.               *)

DOC == "word/document.xml"
COMMENTS == "word/comments.xml"
RELS == "word/_rels/document.xml.rels"
CTYPES == "[Content_Types].xml"

COMMENTS_REL_TYPE == "comments"
HYPERLINK_REL_TYPE == "hyperlink"
COMMENTS_PART == "/word/comments.xml"

\* part_name in zf.namelist()
HasPart(zip, name) == \E i \in 1..Len(zip) : zip[i].name = name

\* _load_zip_part: the data of the named entry (when HasPart)
_load_zip_part(zip, name) == zip[CHOOSE i \in 1..Len(zip) : zip[i].name = name].data

Names(zip) == [i \in 1..Len(zip) |-> zip[i].name]

\* every element of the document tree, in document order
RECURSIVE DocNodes(_)
DocNodes(root) == IF root = <<>> THEN <<>> ELSE IterAll(Head(root).kids) \o DocNodes(Tail(root))

RECURSIVE MaxOf(_, _)
MaxOf(ids, floor) == IF ids = <<>> THEN floor ELSE MaxOf(Tail(ids), Max2(floor, Head(ids)))

Ids(records) == [i \in 1..Len(records) |-> records[i].id]

\* _get_max_id_in_doc: the highest integer w:id in the tree, 0 when there is
\* none (a missing or non-integer id is skipped)
_get_max_id_in_doc(root) == MaxOf(Ids(DocNodes(root)), 0)

\* (mutation: ids are counted from the number of elements)
GenerateIdByCount(root) == Len(DocNodes(root)) + 1

\* _generate_id: max existing w:id of the document tree + 1
_generate_id(root) == _get_max_id_in_doc(root) + 1

\* _get_max_comment_id: the highest comment id of the comments part, -1 when
\* it holds none
_get_max_comment_id(comments_root) == MaxOf(Ids(comments_root), -1)

\* the package rewriter of the tracked-change operations: every entry of the
\* original archive in order, word/document.xml replaced by the new tree
\* (mutation: word/document.xml is written after the other entries)
SaveDocumentLast(zip, root) == Append(SelectSeq(zip, LAMBDA e : e.name # DOC), [name |-> DOC, data |-> root])

_save_document_xml(zip, root) == [i \in 1..Len(zip) |-> IF zip[i].name = DOC THEN [zip[i] EXCEPT !.data = root] ELSE zip[i]]

\* a result of a core function or of a tool: success flag, error text, the
\* operation's count and the id it reports
Res(success, error, count, id) == [success |-> success, error |-> error, count |-> count, id |-> id]

Fail(error) == Res(FALSE, error, 0, NoId)

-----------------------------------------------------------------------------
(* Splicing shared by track_replace_in_doc and track_delete_in_doc *)

\* "for run_elem, _, _ in match: run_parent.remove(run_elem)"; the paths are
\* in document order, so removing from the last one backwards keeps the
\* earlier paths valid
RECURSIVE RemoveMatched(_, _, _)
RemoveMatched(p, match, k) ==
    IF k = 0 THEN p
    ELSE Only({RemoveMatched(q, match, k - 1) : q \in {RemoveAt(p, match[k].run)}})

\* parent.insert(insert_idx + offset, e) for each e of `elems` in order
RECURSIVE InsertSeq(_, _, _, _)
InsertSeq(p, ppath, idx0, elems) ==
    IF elems = <<>> THEN p
    ELSE Only({InsertSeq(q, ppath, idx0 + 1, Tail(elems)) : q \in {InsertAt(p, ppath, idx0, Head(elems))}})

\* (mutation: the after run always takes the first run's formatting)
AlwaysFirstRpr(a, b) == b

\* "after_rpr or rpr": an lxml element is false when it has no children, so
\* a w:rPr without children counts like None
OrRpr(a, b) == IF a \in {NoRpr, EmptyRpr} THEN b ELSE a

\* (mutation: the text after the match in the last run is dropped)
AfterTextDropped(p, match) == <<>>

\* the leftover runs and the insertion point, as lines 230-267 and 388-426
\* compute them
BeforeText(p, match) == SubSeq(_get_run_text(NodeAt(p, match[1].run)), 1, match[1].s)

AfterText(p, match) ==
    LET mlast == match[Len(match)]
        t == _get_run_text(NodeAt(p, mlast.run))
    IN  SubSeq(t, mlast.e + 1, Len(t))

\* removes the matched runs and inserts, at the first matched run's position
\* in its parent: [before run] wrappers... [after run].  or_rpr: the after run
\* is built with "after_rpr or rpr" (tracked changes) or with after_rpr alone
\* (hyperlink)
Splice(p, match, wrappers, or_rpr) ==
    LET mfirst == match[1]
        mlast == match[Len(match)]
        rpr == _get_run_rpr(NodeAt(p, mfirst.run))
        before_text == BeforeText(p, match)
        after_text == AfterText(p, match)
        after_rpr == IF mlast.run # mfirst.run THEN _get_run_rpr(NodeAt(p, mlast.run)) ELSE rpr
        before == IF before_text # <<>> THEN <<_make_run(before_text, rpr, FALSE)>> ELSE <<>>
        after == IF after_text # <<>> THEN <<_make_run(after_text, IF or_rpr THEN OrRpr(after_rpr, rpr) ELSE after_rpr, FALSE)>> ELSE <<>>
    IN  Only({InsertSeq(q, ParentPath(mfirst.run), IndexInParent(mfirst.run), elems) : q \in {RemoveMatched(p, match, Len(match))}, elems \in {before \o wrappers \o after}})

\* one pass of track_replace_in_doc's inner loop on paragraph p (lines 205-269)
ReplaceOnce(p, match, old_text, new_text, author, next_id) ==
    LET rpr == _get_run_rpr(NodeAt(p, match[1].run))
        del_elem == Elem("del", next_id, author, <<>>, NoRpr, <<_make_run(old_text, rpr, TRUE)>>)
        ins_elem == Elem("ins", next_id + 1, author, <<>>, NoRpr, <<_make_run(new_text, rpr, FALSE)>>)
    IN  Splice(p, match, <<del_elem, ins_elem>>, TRUE)

\* (mutation: the text after the match in the last run is not put back)
DeleteOnceNoAfter(p, match, text, author, next_id) ==
    LET rpr == _get_run_rpr(NodeAt(p, match[1].run))
        del_elem == Elem("del", next_id, author, <<>>, NoRpr, <<_make_run(text, rpr, TRUE)>>)
        before == IF BeforeText(p, match) # <<>> THEN <<_make_run(BeforeText(p, match), rpr, FALSE)>> ELSE <<>>
    IN  Only({InsertSeq(q, ParentPath(match[1].run), IndexInParent(match[1].run), elems) : q \in {RemoveMatched(p, match, Len(match))}, elems \in {before \o <<del_elem>>}})

\* one pass of track_delete_in_doc's inner loop on paragraph p (lines 386-428)
DeleteOnce(p, match, text, author, next_id) ==
    LET rpr == _get_run_rpr(NodeAt(p, match[1].run))
        del_elem == Elem("del", next_id, author, <<>>, NoRpr, <<_make_run(text, rpr, TRUE)>>)
    IN  Splice(p, match, <<del_elem>>, TRUE)

-----------------------------------------------------------------------------
(* What a core function does to the archive it loaded: it raises, or it    *)
(* returns `res`; `write` tells whether filepath.write_bytes(zip) ran, and *)
(* `allocated` is the set of ids the call allocated.                       *)

Outcome(raised, write, zip, res, allocated) == [raised |-> raised, write |-> write, zip |-> zip, res |-> res, allocated |-> allocated]

Raised(zip) == Outcome(TRUE, FALSE, zip, Fail("exception"), {})

Returned(zip, res) == Outcome(FALSE, FALSE, zip, res, {})

\* (mutation: the last paragraph that holds the text is taken)
LastMatchingParagraph(root, text, i) ==
    IF \E k \in i..Len(root) : _find_text_in_paragraph(root[k].kids, text) # None
    THEN CHOOSE k \in i..Len(root) : _find_text_in_paragraph(root[k].kids, text) # None /\ \A m \in (k + 1)..Len(root) : _find_text_in_paragraph(root[m].kids, text) = None
    ELSE 0

\* index of the first paragraph from i on in which the text is found, 0 if none
RECURSIVE FirstMatch(_, _, _)
FirstMatch(root, text, i) ==
    IF i > Len(root) THEN 0
    ELSE IF _find_text_in_paragraph(root[i].kids, text) # None THEN i
    ELSE FirstMatch(root, text, i + 1)

-----------------------------------------------------------------------------
(* track_insert_in_doc *)

\* lines 308-345 on the paragraph that holds the match
InsertOnce(p, match, insert_text, author, next_id) ==
    LET mlast == match[Len(match)]
        run == NodeAt(p, mlast.run)
        rpr == _get_run_rpr(run)
        last_run_text == _get_run_text(run)
        ins_elem == Elem("ins", next_id, author, <<>>, NoRpr, <<_make_run(insert_text, rpr, FALSE)>>)
        parent == ParentPath(mlast.run)
        run_idx == IndexInParent(mlast.run)
        after_match_text == SubSeq(last_run_text, mlast.e + 1, Len(last_run_text))
        before_match_text == SubSeq(last_run_text, 1, mlast.e)
    IN  IF after_match_text # <<>>
        THEN InsertAt(InsertAt(SetAt(p, mlast.run, [run EXCEPT !.text = before_match_text]), parent, run_idx + 1, ins_elem), parent, run_idx + 2, _make_run(after_match_text, rpr, FALSE))
        ELSE InsertAt(p, parent, run_idx + 1, ins_elem)

track_insert_in_doc(zip, after_text, insert_text, author) ==
    IF ~HasPart(zip, DOC) THEN Raised(zip)
    ELSE LET root == _load_zip_part(zip, DOC)
             pi == FirstMatch(root, after_text, 1)
         IN  IF pi = 0 THEN Returned(zip, Fail("Text not found"))
             ELSE LET next_id == _generate_id(root)
                      match == _find_text_in_paragraph(root[pi].kids, after_text)
                      new_root == [root EXCEPT ![pi].kids = InsertOnce(@, match, insert_text, author, next_id)]
                  IN  Outcome(FALSE, TRUE, _save_document_xml(zip, new_root), Res(TRUE, "", 1, next_id), {next_id})

-----------------------------------------------------------------------------
(* track_delete_in_doc *)

\* lines 380-428: per paragraph, search again after every splice
RECURSIVE DeleteLoop(_, _, _, _, _, _)
DeleteLoop(root, pi, text, author, deletions, allocated) ==
    IF pi > Len(root) THEN [root |-> root, count |-> deletions, allocated |-> allocated]
    ELSE LET match == _find_text_in_paragraph(root[pi].kids, text)
         IN  IF match = None THEN DeleteLoop(root, pi + 1, text, author, deletions, allocated)
             ELSE LET next_id == _generate_id(root)
                  IN  DeleteLoop([root EXCEPT ![pi].kids = DeleteOnce(@, match, text, author, next_id)], pi, text, author, deletions + 1, allocated \cup {next_id})

\* (mutation: no "if deletions == 0" check)
TrackDeleteNoCountCheck(zip, text, author) ==
    IF ~HasPart(zip, DOC) THEN Raised(zip)
    ELSE LET done == DeleteLoop(_load_zip_part(zip, DOC), 1, text, author, 0, {})
         IN  Outcome(FALSE, TRUE, _save_document_xml(zip, done.root), Res(TRUE, "", done.count, NoId), done.allocated)

track_delete_in_doc(zip, text, author) ==
    IF ~HasPart(zip, DOC) THEN Raised(zip)
    ELSE LET done == DeleteLoop(_load_zip_part(zip, DOC), 1, text, author, 0, {})
         IN  IF done.count = 0 THEN Returned(zip, Fail("Text not found"))
             ELSE Outcome(FALSE, TRUE, _save_document_xml(zip, done.root), Res(TRUE, "", done.count, NoId), done.allocated)

-----------------------------------------------------------------------------
(* accept_tracked_changes_in_doc / reject_tracked_changes_in_doc *)

\* the optional arguments: has_ids = FALSE is change_ids = None, has_author =
\* FALSE is author = None
Filter(has_ids, ids, has_author, author) == [has_ids |-> has_ids, ids |-> ids, has_author |-> has_author, author |-> author]

NoFilter == Filter(FALSE, {}, FALSE, "")

\* (mutation: a missing or non-integer id is taken as a member of change_ids)
ShouldProcessMalformed(elem, f) ==
    /\ f.has_ids => (elem.id \in {NoId, BadId} \/ elem.id \in f.ids)
    /\ f.has_author => elem.author = f.author

\* _should_process: int(eid) raises ValueError for a missing or non-integer id
_should_process(elem, f) ==
    /\ f.has_ids => (elem.id \notin {NoId, BadId} /\ elem.id \in f.ids)
    /\ f.has_author => elem.author = f.author

\* how many elements of `nodes` with the tag pass the filter
CountPassing(nodes, tag, f) == Cardinality({i \in 1..Len(nodes) : nodes[i].tag = tag /\ _should_process(nodes[i], f)})

\* (mutation: a passing w:ins is removed with its children)
RECURSIVE UnwrapInsDropsChildren(_, _)
UnwrapInsDropsChildren(kids, f) ==
    IF kids = <<>> THEN <<>>
    ELSE LET h == Head(kids)
         IN  (IF h.tag = "ins" /\ _should_process(h, f) THEN <<>> ELSE <<[h EXCEPT !.kids = UnwrapInsDropsChildren(@, f)]>>) \o UnwrapInsDropsChildren(Tail(kids), f)

\* lines 548-560: every passing w:ins is replaced by its children
RECURSIVE UnwrapIns(_, _)
UnwrapIns(kids, f) ==
    IF kids = <<>> THEN <<>>
    ELSE LET h == Head(kids)
         IN  (IF h.tag = "ins" /\ _should_process(h, f) THEN UnwrapIns(h.kids, f) ELSE <<[h EXCEPT !.kids = UnwrapIns(@, f)]>>) \o UnwrapIns(Tail(kids), f)

\* lines 563-570 and 624-631: every passing wrapper with the tag is removed
\* with its content
RECURSIVE RemoveWrappers(_, _, _)
RemoveWrappers(kids, tag, f) ==
    IF kids = <<>> THEN <<>>
    ELSE LET h == Head(kids)
         IN  (IF h.tag = tag /\ _should_process(h, f) THEN <<>> ELSE <<[h EXCEPT !.kids = RemoveWrappers(@, tag, f)]>>) \o RemoveWrappers(Tail(kids), tag, f)

\* (mutation: the w:delText of the promoted children is left as it is)
RECURSIVE UnwrapDelKeepsDelText(_, _, _)
UnwrapDelKeepsDelText(kids, f, convert) ==
    IF kids = <<>> THEN <<>>
    ELSE LET h == Head(kids)
         IN  (IF h.tag = "del" /\ _should_process(h, f) THEN UnwrapDelKeepsDelText(h.kids, f, FALSE)
              ELSE <<[h EXCEPT !.kids = UnwrapDelKeepsDelText(@, f, convert)]>>) \o UnwrapDelKeepsDelText(Tail(kids), f, convert)

\* lines 634-648: every passing w:del is replaced by its children, and every
\* w:delText below an unwrapped w:del becomes a w:t (child.iter covers all the
\* descendants of the promoted children)
RECURSIVE UnwrapDel(_, _, _)
UnwrapDel(kids, f, convert) ==
    IF kids = <<>> THEN <<>>
    ELSE LET h == Head(kids)
         IN  (IF h.tag = "del" /\ _should_process(h, f) THEN UnwrapDel(h.kids, f, TRUE)
              ELSE IF h.tag = "rDel" /\ convert THEN <<[h EXCEPT !.tag = "r"]>>
              ELSE <<[h EXCEPT !.kids = UnwrapDel(@, f, convert)]>>) \o UnwrapDel(Tail(kids), f, convert)

accept_tracked_changes_in_doc(zip, f) ==
    IF ~HasPart(zip, DOC) THEN Raised(zip)
    ELSE LET root == _load_zip_part(zip, DOC)
             root1 == [i \in 1..Len(root) |-> [kids |-> UnwrapIns(root[i].kids, f)]]
             root2 == [i \in 1..Len(root) |-> [kids |-> RemoveWrappers(root1[i].kids, "del", f)]]
             root3 == [i \in 1..Len(root) |-> [kids |-> RemoveWrappers(root2[i].kids, "del", f)]]
             accepted == CountPassing(DocNodes(root), "ins", f) + CountPassing(DocNodes(root1), "del", f) + CountPassing(DocNodes(root2), "del", f)
         IN  IF accepted = 0 THEN Returned(zip, Res(TRUE, "", 0, NoId))
             ELSE Outcome(FALSE, TRUE, _save_document_xml(zip, root3), Res(TRUE, "", accepted, NoId), {})

reject_tracked_changes_in_doc(zip, f) ==
    IF ~HasPart(zip, DOC) THEN Raised(zip)
    ELSE LET root == _load_zip_part(zip, DOC)
             root1 == [i \in 1..Len(root) |-> [kids |-> RemoveWrappers(root[i].kids, "ins", f)]]
             root2 == [i \in 1..Len(root) |-> [kids |-> UnwrapDel(root1[i].kids, f, FALSE)]]
             rejected == CountPassing(DocNodes(root), "ins", f) + CountPassing(DocNodes(root1), "del", f)
         IN  IF rejected = 0 THEN Returned(zip, Res(TRUE, "", 0, NoId))
             ELSE Outcome(FALSE, TRUE, _save_document_xml(zip, root2), Res(TRUE, "", rejected, NoId), {})

-----------------------------------------------------------------------------
(* add_comment_to_doc *)

KidsAt(p, ppath) == IF ppath = <<>> THEN p ELSE NodeAt(p, ppath).kids

RECURSIVE SetKidsAt(_, _, _)
SetKidsAt(p, ppath, kids) ==
    IF ppath = <<>> THEN kids
    ELSE [p EXCEPT ![ppath[1]].kids = SetKidsAt(@, Tail(ppath), kids)]

Comment(id, author, initials, text) == [id |-> id, author |-> author, initials |-> initials, text |-> text]

Relationship(rid, type, target, external) == [rid |-> rid, type |-> type, target |-> target, external |-> external]

Override(part) == [part |-> part]

Rids(rels) == [i \in 1..Len(rels) |-> rels[i].rid]

\* (mutation: the relationships are counted)
NextRidByCount(rels_root) == Len(rels_root) + 1

\* _get_next_rid: 1 + the largest N of the ids "rIdN" (an id of another shape
\* has rid = BadId and is skipped)
_get_next_rid(rels_root) == MaxOf(Rids(rels_root), 0) + 1

\* (mutation: the existing comments relationship is not seen)
HasCommentsRelNever(rels_root) == FALSE

_has_comments_rel(rels_root) == \E i \in 1..Len(rels_root) : rels_root[i].type = COMMENTS_REL_TYPE

HasCommentsOverride(ct_root) == \E i \in 1..Len(ct_root) : ct_root[i].part = COMMENTS_PART

\* (mutation: the end offset is not moved when the first run was cut)
EffectiveEndNotMoved(first_start, last_end, same_run) == last_end

\* lines 304-309: where the match ends in the last run once the first run
\* may have been cut
EffectiveEnd(first_start, last_end, same_run) ==
    IF same_run THEN (IF first_start > 0 THEN last_end - first_start ELSE last_end)
    ELSE last_end

\* lines 282-300 on the children of the matched runs' parent: fi is the
\* 0-based index of the first matched run
SplitFirst(kids, fi, first_start) ==
    LET run == kids[fi + 1]
        t == _get_run_text(run)
        before_run == _make_run(SubSeq(t, 1, first_start), _get_run_rpr(run), FALSE)
        cut == [run EXCEPT !.text = SubSeq(t, first_start + 1, Len(t))]
    IN  IF first_start > 0 THEN InsertInto([kids EXCEPT ![fi + 1] = cut], fi, before_run) ELSE kids

\* (mutation: "effective_end <= len(last_run_text)")
SplitLastAlways(kids, li, effective_end) ==
    LET run == kids[li + 1]
        t == _get_run_text(run)
        remainder_run == _make_run(SubSeq(t, effective_end + 1, Len(t)), _get_run_rpr(run), FALSE)
        cut == [run EXCEPT !.text = SubSeq(t, 1, effective_end)]
    IN  IF effective_end <= Len(t) THEN InsertInto([kids EXCEPT ![li + 1] = cut], li + 1, remainder_run) ELSE kids

\* lines 311-324: li is the 0-based index of the last matched run
SplitLast(kids, li, effective_end) ==
    LET run == kids[li + 1]
        t == _get_run_text(run)
        remainder_run == _make_run(SubSeq(t, effective_end + 1, Len(t)), _get_run_rpr(run), FALSE)
        cut == [run EXCEPT !.text = SubSeq(t, 1, effective_end)]
    IN  IF effective_end < Len(t) THEN InsertInto([kids EXCEPT ![li + 1] = cut], li + 1, remainder_run) ELSE kids

\* lines 326-346: the markers around the matched runs at 0-based fi..li
InsertMarkers(kids, fi, li, comment_id) ==
    LET range_start == Elem("commentRangeStart", comment_id, "", <<>>, NoRpr, <<>>)
        range_end == Elem("commentRangeEnd", comment_id, "", <<>>, NoRpr, <<>>)
        ref_run == Elem("rRef", comment_id, "", <<>>, "CommentReference", <<>>)
        k1 == InsertInto(kids, fi, range_start)
        k2 == InsertInto(k1, (li + 1) + 1, range_end)
    IN  InsertInto(k2, (li + 2) + 1, ref_run)

\* lines 273-346 on the paragraph that holds the match (both ends of the
\* match in the same parent)
CommentSplice(p, match, comment_id) ==
    LET mfirst == match[1]
        mlast == match[Len(match)]
        parent == ParentPath(mfirst.run)
        first_idx == IndexInParent(mfirst.run)
        last_idx == IndexInParent(mlast.run)
        shift == IF mfirst.s > 0 THEN 1 ELSE 0
        k1 == SplitFirst(KidsAt(p, parent), first_idx, mfirst.s)
        k2 == SplitLast(k1, last_idx + shift, EffectiveEnd(mfirst.s, mlast.e, mlast.run = mfirst.run))
    IN  SetKidsAt(p, parent, InsertMarkers(k2, first_idx + shift, last_idx + shift, comment_id))

\* lines 393-412: the archive written by add_comment_to_doc.  new_rels and
\* new_ct are <<>> when the part was not patched, else <<the new data>>
CommentZip(zip, new_doc, new_comments, new_rels, new_ct) ==
    LET copy == [i \in 1..Len(zip) |->
                    IF zip[i].name = DOC THEN [zip[i] EXCEPT !.data = new_doc]
                    ELSE IF zip[i].name = COMMENTS THEN [zip[i] EXCEPT !.data = new_comments]
                    ELSE IF zip[i].name = RELS /\ new_rels # <<>> THEN [zip[i] EXCEPT !.data = new_rels[1]]
                    ELSE IF zip[i].name = CTYPES /\ new_ct # <<>> THEN [zip[i] EXCEPT !.data = new_ct[1]]
                    ELSE zip[i]]
    IN  IF HasPart(zip, COMMENTS) THEN copy ELSE Append(copy, [name |-> COMMENTS, data |-> new_comments])

add_comment_to_doc(zip, target_text, comment_text, author, initials) ==
    IF ~HasPart(zip, DOC) THEN Returned(zip, Fail("Cannot find word/document.xml in the docx file"))
    ELSE LET doc_root == _load_zip_part(zip, DOC)
             pi == FirstMatch(doc_root, target_text, 1)
         IN  IF pi = 0 THEN Returned(zip, Fail("Target text not found"))
             ELSE LET match == _find_text_in_paragraph(doc_root[pi].kids, target_text)
                      comments_root == IF HasPart(zip, COMMENTS) THEN _load_zip_part(zip, COMMENTS) ELSE <<>>
                      comment_id == Max2(_get_max_comment_id(comments_root), _get_max_id_in_doc(doc_root)) + 1
                      new_comments == Append(comments_root, Comment(comment_id, author, initials, comment_text))
                      rels_root == IF HasPart(zip, RELS) THEN _load_zip_part(zip, RELS) ELSE <<>>
                      rels_modified == HasPart(zip, RELS) /\ ~_has_comments_rel(rels_root)
                      new_rels == IF rels_modified THEN <<Append(rels_root, Relationship(_get_next_rid(rels_root), COMMENTS_REL_TYPE, "comments.xml", FALSE))>> ELSE <<>>
                      ct_root == IF HasPart(zip, CTYPES) THEN _load_zip_part(zip, CTYPES) ELSE <<>>
                      ct_modified == HasPart(zip, CTYPES) /\ ~HasCommentsOverride(ct_root)
                      new_ct == IF ct_modified THEN <<Append(ct_root, Override(COMMENTS_PART))>> ELSE <<>>
                  IN  \* list(parent).index(last_run) raises ValueError when the last
                      \* matched run is not a child of the first one's parent
                      IF ParentPath(match[Len(match)].run) # ParentPath(match[1].run) THEN Raised(zip)
                      ELSE Outcome(FALSE, TRUE,
                                   CommentZip(zip, [doc_root EXCEPT ![pi].kids = CommentSplice(@, match, comment_id)], new_comments, new_rels, new_ct),
                                   Res(TRUE, "", 1, comment_id), {comment_id})

-----------------------------------------------------------------------------
(* add_hyperlink_to_doc *)

\* lines 177-203: the wrapper with its single run
HyperlinkElem(rid, text, rpr) == [Elem("hyperlink", NoId, "", <<>>, NoRpr, <<Elem("r", NoId, "", text, "Hyperlink+" \o rpr, <<>>)>>) EXCEPT !.rid = rid]

\* lines 242-251: the archive written by add_hyperlink_to_doc
HyperlinkZip(zip, new_doc, new_rels) ==
    [i \in 1..Len(zip) |->
        IF zip[i].name = DOC THEN [zip[i] EXCEPT !.data = new_doc]
        ELSE IF zip[i].name = RELS THEN [zip[i] EXCEPT !.data = new_rels]
        ELSE zip[i]]

\* (mutation: the paragraph index does not restrict the search)
TargetParagraphAnywhere(paragraphs, text, has_index, paragraph_index) == FirstMatch(paragraphs, text, 1)

\* lines 131-136: the 1-based position of the paragraph that holds the match,
\* 0 for "match is None"; has_index = FALSE is paragraph_index = None
TargetParagraph(paragraphs, text, has_index, paragraph_index) ==
    IF has_index
    THEN (IF _find_text_in_paragraph(paragraphs[paragraph_index + 1].kids, text) # None THEN paragraph_index + 1 ELSE 0)
    ELSE FirstMatch(paragraphs, text, 1)

\* line 130: f"Paragraph index {paragraph_index} out of range (0-{len(paragraphs)-1})"
OutOfRange(paragraph_index, n) == "Paragraph index " \o ToString(paragraph_index) \o " out of range (0-" \o ToString(n - 1) \o ")"

add_hyperlink_to_doc(zip, text, url, has_index, paragraph_index) ==
    IF ~HasPart(zip, DOC) THEN Returned(zip, Fail("Cannot find word/document.xml"))
    ELSE LET doc_root == _load_zip_part(zip, DOC)
             pi == TargetParagraph(doc_root, text, has_index, paragraph_index)
         IN  IF has_index /\ (paragraph_index < 0 \/ paragraph_index >= Len(doc_root)) THEN Returned(zip, Fail(OutOfRange(paragraph_index, Len(doc_root))))
             ELSE IF pi = 0 THEN Returned(zip, Fail("Text not found"))
             ELSE IF ~HasPart(zip, RELS) THEN Returned(zip, Fail("Cannot find document.xml.rels"))
             ELSE LET rels_root == _load_zip_part(zip, RELS)
                      rid == _get_next_rid(rels_root)
                      new_rels == Append(rels_root, Relationship(rid, HYPERLINK_REL_TYPE, url, TRUE))
                      match == _find_text_in_paragraph(doc_root[pi].kids, text)
                      rpr == _get_run_rpr(NodeAt(doc_root[pi].kids, match[1].run))
                      new_doc == [doc_root EXCEPT ![pi].kids = Splice(@, match, <<HyperlinkElem(rid, text, rpr)>>, FALSE)]
                  IN  Outcome(FALSE, TRUE, HyperlinkZip(zip, new_doc, new_rels), Res(TRUE, "", 1, rid), {})

-----------------------------------------------------------------------------
(* list_tracked_changes_in_doc *)

ContextLen == 100    \* para_text[:100]

Change(id, author, text, paragraph_context) == [id |-> id, author |-> author, text |-> text, paragraph_context |-> paragraph_context]

\* the joined text of the elements below a wrapper whose tag is `tag`
TextsBelow(elem, tag) == Concat([i \in 1..Len(IterAll(elem.kids)) |-> IF IterAll(elem.kids)[i].tag = tag THEN IterAll(elem.kids)[i].text ELSE <<>>])

\* lines 457-461: the text of every w:t below the insertion
InsertedText(ins) == TextsBelow(ins, "r")

\* (mutation: the deleted text is read from w:t only)
DeletedTextFromT(del_elem) == TextsBelow(del_elem, "r")

\* lines 482-491: the text of every w:delText below the deletion, and of the
\* w:t below it when there is no deleted text
DeletedText(del_elem) ==
    IF TextsBelow(del_elem, "rDel") # <<>> THEN TextsBelow(del_elem, "rDel") ELSE TextsBelow(del_elem, "r")

\* ins.get(W("author"), "Unknown")
AuthorOf(elem) == IF elem.author = "" THEN "Unknown" ELSE elem.author

\* the records of the wrappers with tag `tag` of one paragraph
ChangesOf(p, tag) ==
    LET found == SelectSeq(IterAll(p), LAMBDA n : n.tag = tag)
        para_text == _paragraph_text(p)
        context == SubSeq(para_text, 1, IF Len(para_text) < ContextLen THEN Len(para_text) ELSE ContextLen)
    IN  [i \in 1..Len(found) |-> Change(found[i].id, AuthorOf(found[i]), IF tag = "ins" THEN InsertedText(found[i]) ELSE DeletedText(found[i]), context)]

\* root.iter(W(tag)): the wrappers of every paragraph, in document order
RECURSIVE ChangesIn(_, _)
ChangesIn(root, tag) == IF root = <<>> THEN <<>> ELSE ChangesOf(Head(root).kids, tag) \o ChangesIn(Tail(root), tag)

\* lines 506-513; count is total_changes
ListRes(insertions, deletions) == [success |-> TRUE, error |-> "", count |-> Len(insertions) + Len(deletions), id |-> NoId, insertions |-> insertions, deletions |-> deletions, total_insertions |-> Len(insertions), total_deletions |-> Len(deletions)]

list_tracked_changes_in_doc(zip) ==
    IF ~HasPart(zip, DOC) THEN Raised(zip)
    ELSE LET root == _load_zip_part(zip, DOC)
         IN  Returned(zip, ListRes(ChangesIn(root, "ins"), ChangesIn(root, "del")))

-----------------------------------------------------------------------------
(* The tools layer: the wrappers of tracked_changes_tools.py,               *)
(* comment_write_tools.py and hyperlink_tools.py.  Each returns the result  *)
(* handed to the caller and the file left on disk.                          *)

\* a file on disk: whether it exists, whether it can be written, what the
\* imported check_file_writeable answers for it, and its archive entries
File(exists, writable, entries) == [exists |-> exists, writable |-> writable, check |-> writable, entries |-> entries]

\* "is_writeable, error_message = check_file_writeable(filename)": the answer
\* of the imported check is an input
check_file_writeable(f) == f.check

\* filepath.write_bytes(buffer.getvalue()); raises on a file that cannot be
\* written (see Guarded)
write_bytes(f, zip) == [f EXCEPT !.entries = zip]

\* the checks every mutating tool makes before it calls the core function
\* inside try/except, and what it returns: lines 43-60 of
\* tracked_changes_tools.py and the same shape in the other tools
Precheck(f, bad_args) ==
    IF ~f.exists THEN "Document does not exist"
    ELSE IF ~check_file_writeable(f) THEN "Cannot modify document"
    ELSE IF bad_args THEN "cannot be empty"
    ELSE ""

Guarded(f, bad_args, o) ==
    IF Precheck(f, bad_args) # "" THEN [file |-> f, res |-> Fail(Precheck(f, bad_args)), allocated |-> {}]
    ELSE IF o.raised \/ (o.write /\ ~f.writable) THEN [file |-> f, res |-> Fail("Failed: exception"), allocated |-> {}]
    ELSE [file |-> IF o.write THEN write_bytes(f, o.zip) ELSE f, res |-> o.res, allocated |-> o.allocated]

track_insert(f, after_text, insert_text, author) == Guarded(f, after_text = <<>> \/ insert_text = <<>>, track_insert_in_doc(f.entries, after_text, insert_text, author))

track_delete(f, text, author) == Guarded(f, text = <<>>, track_delete_in_doc(f.entries, text, author))

accept_tracked_changes(f, filter) == Guarded(f, FALSE, accept_tracked_changes_in_doc(f.entries, filter))

reject_tracked_changes(f, filter) == Guarded(f, FALSE, reject_tracked_changes_in_doc(f.entries, filter))

add_comment(f, target_text, comment_text, author, initials) == Guarded(f, target_text = <<>> \/ comment_text = <<>>, add_comment_to_doc(f.entries, target_text, comment_text, author, initials))

\* list_tracked_changes: the file must exist; nothing is written
list_tracked_changes(f) ==
    IF ~f.exists THEN [file |-> f, res |-> Fail("Document does not exist"), allocated |-> {}]
    ELSE IF list_tracked_changes_in_doc(f.entries).raised THEN [file |-> f, res |-> Fail("Failed: exception"), allocated |-> {}]
    ELSE [file |-> f, res |-> list_tracked_changes_in_doc(f.entries).res, allocated |-> {}]

\* action = "add"
manage_hyperlinks(f, text, url, has_index, paragraph_index) == Guarded(f, text = <<>> \/ url = <<>>, add_hyperlink_to_doc(f.entries, text, url, has_index, paragraph_index))

-----------------------------------------------------------------------------
(* State *)

\* a completed call as the caller sees it
Call(op, a1, a2, filter, idx, res, before, allocated) == [op |-> op, a1 |-> a1, a2 |-> a2, filter |-> filter, idx |-> idx, res |-> res, before |-> before, allocated |-> allocated]

NoIndex == -9       \* paragraph_index = None

\* the indexer harness before the indexer ran
NotSearched == [done |-> FALSE, match |-> None]

NoCall(f) == Call("none", <<>>, <<>>, NoFilter, NoIndex, Res(TRUE, "", 0, NoId), f, {})

\* the locals of track_replace_in_doc while its loop runs
\* (match: what the search of line 201 returned in the current pass)
Locals(root, zip_bytes, pi, replacements, old_text, new_text, author, allocated) == [root |-> root, zip_bytes |-> zip_bytes, pi |-> pi, replacements |-> replacements, old_text |-> old_text, new_text |-> new_text, author |-> author, allocated |-> allocated, match |-> None]

NoLocals == Locals(<<>>, <<>>, 0, 0, <<>>, <<>>, "", {})

\* no collaborator takes part
NoExt == <<>>

\* no concurrent callers
NoRace == [proc |-> <<>>, trace |-> <<>>]

MaxOps == 4          \* calls per behaviour
MaxIter == 4         \* passes of track_replace_in_doc's loop that are followed

\* a call that runs to its end in one step
Complete(op, a1, a2, filter, idx, out) ==
    /\ pc = "idle"
    /\ calls < MaxOps
    /\ file' = out.file
    /\ last' = Call(op, a1, a2, filter, idx, out.res, file, out.allocated)
    /\ calls' = calls + 1
    /\ UNCHANGED <<pc, loc, orig, fp, fs, fm, race, ext>>

TrackInsert(after_text, insert_text, author) == Complete("track_insert", after_text, insert_text, NoFilter, NoIndex, track_insert(file, after_text, insert_text, author))

TrackDelete(text, author) == Complete("track_delete", text, <<author>>, NoFilter, NoIndex, track_delete(file, text, author))

AcceptTrackedChanges(filter) == Complete("accept_tracked_changes", <<>>, <<>>, filter, NoIndex, accept_tracked_changes(file, filter))

RejectTrackedChanges(filter) == Complete("reject_tracked_changes", <<>>, <<>>, filter, NoIndex, reject_tracked_changes(file, filter))

AddComment(target_text, comment_text, author) == Complete("add_comment", target_text, comment_text, NoFilter, NoIndex, add_comment(file, target_text, comment_text, author, "AYK"))

AddHyperlink(text, url, has_index, paragraph_index) == Complete("manage_hyperlinks", text, url, NoFilter, IF has_index THEN paragraph_index ELSE NoIndex, manage_hyperlinks(file, text, url, has_index, paragraph_index))

ListTrackedChanges == Complete("list_tracked_changes", <<>>, <<>>, NoFilter, NoIndex, list_tracked_changes(file))

-----------------------------------------------------------------------------
(* track_replace: the tool and track_replace_in_doc, step by step through   *)
(* the loop "for p in paragraphs: while True: ...".  pc = "track_replace"   *)
(* is line 201, before the search in paragraph loc.pi (or the end of the    *)
(* for loop); pc = "track_replace_searched" is line 202, after it.          *)

\* lines 43-56 of the tool and line 194 (_load_document_xml): the call either
\* fails at once or enters the loop
TrackReplaceCall(old_text, new_text, author) ==
    /\ pc = "idle"
    /\ calls < MaxOps
    /\ calls' = calls + 1
    /\ LET error == IF Precheck(file, old_text = <<>>) # "" THEN Precheck(file, old_text = <<>>)
                    ELSE IF ~HasPart(file.entries, DOC) THEN "Failed: exception"
                    ELSE ""
       IN  IF error # ""
           THEN /\ last' = Call("track_replace", old_text, new_text, NoFilter, NoIndex, Fail(error), file, {})
                /\ UNCHANGED <<pc, loc>>
           ELSE /\ pc' = "track_replace"
                /\ loc' = Locals(_load_zip_part(file.entries, DOC), file.entries, 1, 0, old_text, new_text, author, {})
                /\ UNCHANGED last
    /\ UNCHANGED <<file, orig, fp, fs, fm, race, ext>>

\* line 201: match = _find_text_in_paragraph(p, old_text)
ReplaceSearch ==
    /\ pc = "track_replace"
    /\ loc.pi <= Len(loc.root)
    /\ pc' = "track_replace_searched"
    /\ loc' = [loc EXCEPT !.match = _find_text_in_paragraph(loc.root[loc.pi].kids, loc.old_text)]
    /\ UNCHANGED <<file, last, calls, orig, fp, fs, fm, race, ext>>

\* lines 205-269: the match is replaced, and the while loop searches again
ReplaceIter ==
    /\ pc = "track_replace_searched"
    /\ loc.match # None
    /\ loc.replacements < MaxIter
    /\ pc' = "track_replace"
    /\ \E next_id \in {_generate_id(loc.root)} :
          loc' = [loc EXCEPT !.root[loc.pi].kids = ReplaceOnce(@, loc.match, loc.old_text, loc.new_text, loc.author, next_id),
                             !.replacements = @ + 1,
                             !.allocated = @ \cup {next_id, next_id + 1},
                             !.match = None]
    /\ UNCHANGED <<file, last, calls, orig, fp, fs, fm, race, ext>>

\* lines 205-269 once MaxIter replacements were made: the loop makes a further
\* pass and searches again; the model no longer follows the growth of the tree
ReplaceIterUntracked ==
    /\ pc = "track_replace_searched"
    /\ loc.match # None
    /\ loc.replacements >= MaxIter
    /\ pc' = "track_replace"
    /\ loc' = [loc EXCEPT !.match = None]
    /\ UNCHANGED <<file, last, calls, orig, fp, fs, fm, race, ext>>

\* lines 202-203: no (further) match, the for loop takes the next paragraph
ReplaceNextParagraph ==
    /\ pc = "track_replace_searched"
    /\ loc.match = None
    /\ pc' = "track_replace"
    /\ loc' = [loc EXCEPT !.pi = @ + 1]
    /\ UNCHANGED <<file, last, calls, orig, fp, fs, fm, race, ext>>

\* lines 271-279: after the last paragraph
ReplaceReturn ==
    /\ pc = "track_replace"
    /\ loc.pi > Len(loc.root)
    /\ pc' = "idle"
    /\ loc' = NoLocals
    /\ IF loc.replacements = 0
       THEN /\ last' = Call("track_replace", loc.old_text, loc.new_text, NoFilter, NoIndex, Fail("Text not found"), file, {})
            /\ file' = file
       ELSE IF ~file.writable
       THEN /\ last' = Call("track_replace", loc.old_text, loc.new_text, NoFilter, NoIndex, Fail("Failed: exception"), file, {})
            /\ file' = file
       ELSE /\ last' = Call("track_replace", loc.old_text, loc.new_text, NoFilter, NoIndex, Res(TRUE, "", loc.replacements, NoId), file, loc.allocated)
            /\ file' = write_bytes(file, _save_document_xml(loc.zip_bytes, loc.root))
    /\ UNCHANGED <<calls, orig, fp, fs, fm, race, ext>>

-----------------------------------------------------------------------------
(* track_delete step by step.  pc = "track_delete" is the head of the while *)
(* loop of track_delete_in_doc (line 381) for paragraph loc.pi, or the end  *)
(* of the for loop when loc.pi is past the last paragraph; loc.replacements *)
(* holds the local `deletions`.                                             *)

\* lines 118-131 of the tool and line 376 (_load_document_xml)
TrackDeleteCall(text, author) ==
    /\ pc = "idle"
    /\ calls < MaxOps
    /\ calls' = calls + 1
    /\ LET error == IF Precheck(file, text = <<>>) # "" THEN Precheck(file, text = <<>>)
                    ELSE IF ~HasPart(file.entries, DOC) THEN "Failed: exception"
                    ELSE ""
       IN  IF error # ""
           THEN /\ last' = Call("track_delete", text, <<author>>, NoFilter, NoIndex, Fail(error), file, {})
                /\ UNCHANGED <<pc, loc>>
           ELSE /\ pc' = "track_delete"
                /\ loc' = Locals(_load_zip_part(file.entries, DOC), file.entries, 1, 0, text, <<>>, author, {})
                /\ UNCHANGED last
    /\ UNCHANGED <<file, orig, fp, fs, fm, race, ext>>

\* lines 381-428: one pass of the while loop: the search, and either the
\* break to the next paragraph or the splice of one deletion
DeletePass ==
    /\ pc = "track_delete"
    /\ loc.pi <= Len(loc.root)
    /\ \E match \in {_find_text_in_paragraph(loc.root[loc.pi].kids, loc.old_text)} :
          IF match = None
          THEN loc' = [loc EXCEPT !.pi = @ + 1]
          ELSE \E next_id \in {_generate_id(loc.root)} :
                  loc' = [loc EXCEPT !.root[loc.pi].kids = DeleteOnce(@, match, loc.old_text, loc.author, next_id),
                                     !.replacements = @ + 1,
                                     !.allocated = @ \cup {next_id}]
    /\ UNCHANGED <<file, pc, last, calls, orig, fp, fs, fm, race, ext>>

\* lines 430-438: after the last paragraph
DeleteReturn ==
    /\ pc = "track_delete"
    /\ loc.pi > Len(loc.root)
    /\ pc' = "idle"
    /\ loc' = NoLocals
    /\ IF loc.replacements = 0
       THEN /\ last' = Call("track_delete", loc.old_text, <<loc.author>>, NoFilter, NoIndex, Fail("Text not found"), file, {})
            /\ file' = file
       ELSE IF ~file.writable
       THEN /\ last' = Call("track_delete", loc.old_text, <<loc.author>>, NoFilter, NoIndex, Fail("Failed: exception"), file, {})
            /\ file' = file
       ELSE /\ last' = Call("track_delete", loc.old_text, <<loc.author>>, NoFilter, NoIndex, Res(TRUE, "", loc.replacements, NoId), file, loc.allocated)
            /\ file' = write_bytes(file, _save_document_xml(loc.zip_bytes, loc.root))
    /\ UNCHANGED <<calls, orig, fp, fs, fm, race, ext>>

-----------------------------------------------------------------------------
(* The operations machine: any sequence of at most MaxOps calls on one file *)

Run(text, rpr) == Elem("r", NoId, "", text, rpr, <<>>)

Para(kids) == [kids |-> kids]

Entry(name, data) == [name |-> name, data |-> data]

Bytes(b) == <<[bytes |-> b]>>

StartDoc == <<Para(<<Run(<<"a">>, "f1"), Run(<<"b">>, NoRpr)>>), Para(<<Run(<<"b", "a">>, "f2")>>)>>

StartRels == <<Relationship(1, "styles", "styles.xml", FALSE), Relationship(BadId, "settings", "settings.xml", FALSE)>>

StartTypes == <<Override("/word/document.xml")>>

StartZip == <<Entry(CTYPES, StartTypes), Entry(RELS, StartRels), Entry(DOC, StartDoc), Entry("word/styles.xml", Bytes("styles"))>>

\* the archive without the entries named in `drop`
RECURSIVE Without(_, _)
Without(zip, drop) ==
    IF zip = <<>> THEN <<>>
    ELSE (IF Head(zip).name \in drop THEN <<>> ELSE <<Head(zip)>>) \o Without(Tail(zip), drop)

StartFiles ==
    { File(TRUE, TRUE, StartZip),
      File(TRUE, TRUE, Without(StartZip, {RELS, CTYPES})),
      File(TRUE, TRUE, Without(StartZip, {DOC})),
      File(TRUE, FALSE, StartZip),
      [File(TRUE, FALSE, StartZip) EXCEPT !.check = TRUE],
      File(FALSE, FALSE, <<>>) }

SearchTexts == {<<>>, <<"a">>, <<"b">>}
NewTexts == {<<"b">>}
InsertTexts == {<<"b">>}
CommentTexts == {<<"c">>}
Authors == {"A"}
Url == <<"u">>
HyperlinkArgs == {<<<<"a">>, Url, FALSE, 0>>, <<<<"a">>, Url, TRUE, 1>>, <<<<"a">>, Url, TRUE, 2>>, <<<<"a">>, Url, TRUE, -1>>, <<<<"a">>, <<>>, FALSE, 0>>}
Filters == {NoFilter}

Init ==
    /\ file \in StartFiles
    /\ pc = "idle"
    /\ loc = NoLocals
    /\ last = NoCall(file)
    /\ calls = 0
    /\ orig = file
    /\ fp = <<>>
    /\ fs = <<>>
    /\ fm = NotSearched
    /\ race = NoRace
    /\ ext = NoExt

Next ==
    \/ \E t \in SearchTexts, c \in CommentTexts, a \in Authors : AddComment(t, c, a)
    \/ \E t \in SearchTexts, n \in NewTexts, a \in Authors : TrackReplaceCall(t, n, a)
    \/ ReplaceSearch
    \/ ReplaceIter
    \/ ReplaceIterUntracked
    \/ ReplaceNextParagraph
    \/ ReplaceReturn
    \/ \E t \in SearchTexts, n \in InsertTexts, a \in Authors : TrackInsert(t, n, a)
    \/ \E t \in SearchTexts, a \in Authors : TrackDelete(t, a)
    \/ \E f \in Filters : AcceptTrackedChanges(f)
    \/ \E f \in Filters : RejectTrackedChanges(f)
    \/ \E h \in HyperlinkArgs : AddHyperlink(h[1], h[2], h[3], h[4])
    \/ ListTrackedChanges

Spec == Init /\ [][Next]_vars

-----------------------------------------------------------------------------
(* Observations used by the properties *)

DocOf(f) == IF HasPart(f.entries, DOC) THEN _load_zip_part(f.entries, DOC) ELSE <<>>

CommentsOf(f) == IF HasPart(f.entries, COMMENTS) THEN _load_zip_part(f.entries, COMMENTS) ELSE <<>>

RelsOf(f) == IF HasPart(f.entries, RELS) THEN _load_zip_part(f.entries, RELS) ELSE <<>>

\* the numeric ids present in the document tree and in the comments part
IdsPresent(f) == {n.id : n \in {DocNodes(DocOf(f))[i] : i \in 1..Len(DocNodes(DocOf(f)))}} \cup {CommentsOf(f)[i].id : i \in 1..Len(CommentsOf(f))}

NumericIdsPresent(f) == {i \in IdsPresent(f) : i >= 0}

\* the tracked-change wrappers of the document tree, in document order
Wrappers(f) == SelectSeq(DocNodes(DocOf(f)), LAMBDA n : n.tag \in {"ins", "del"})

Mutating == {"add_comment", "track_replace", "track_insert", "track_delete", "accept_tracked_changes", "reject_tracked_changes", "manage_hyperlinks"}

-----------------------------------------------------------------------------
(* The indexer on its own: one paragraph, one search text, one call of      *)
(* _find_text_in_paragraph                                                  *)

\* the children a generated paragraph is made of: text-bearing runs, a run
\* inside an insertion wrapper, a deleted run inside a deletion wrapper, and a
\* run without text
FindItems ==
    {Run(t, NoRpr) : t \in Strs(MaxRunLen)}
    \cup {Elem("ins", 1, "A", <<>>, NoRpr, <<Run(t, NoRpr)>>) : t \in Strs(1)}
    \cup {Elem("del", 2, "A", <<>>, NoRpr, <<_make_run(<<"a">>, NoRpr, TRUE)>>), Elem("rNone", NoId, "", <<>>, NoRpr, <<>>)}

FoxParagraph ==
    << Run(<<"T", "h", "e", " ", "q", "u", "i">>, NoRpr),
       Run(<<"c", "k", " ", "b", "r", "o", "w", "n">>, NoRpr),
       Run(<<" ", "f", "o", "x">>, NoRpr) >>

Brown == <<"b", "r", "o", "w", "n">>

FindParagraphs == UNION {[1..k -> FindItems] : k \in 0..MaxRuns} \cup {FoxParagraph}

FindSearches == (Strs(MaxSearchLen) \ {<<>>}) \cup {Brown}

OneParagraphFile(kids) == File(TRUE, TRUE, <<Entry(CTYPES, StartTypes), Entry(RELS, StartRels), Entry(DOC, <<Para(kids)>>)>>)

InitFind ==
    /\ fp \in FindParagraphs
    /\ fs \in FindSearches
    /\ fm = NotSearched
    /\ race = NoRace
    /\ ext = NoExt
    /\ file = OneParagraphFile(fp)
    /\ pc = "idle"
    /\ loc = NoLocals
    /\ last = NoCall(file)
    /\ calls = 0
    /\ orig = file

\* match = _find_text_in_paragraph(p, search_text)
FindText ==
    /\ ~fm.done
    /\ fm' = [done |-> TRUE, match |-> _find_text_in_paragraph(fp, fs)]
    /\ UNCHANGED <<file, pc, loc, last, calls, orig, fp, fs, race, ext>>

NextFind == FindText

SpecFind == InitFind /\ [][NextFind]_vars

-----------------------------------------------------------------------------
(* add_comment on one paragraph of every small run layout *)

MaxCommentRunLen == 3    \* characters per run in the commented paragraphs

\* "abab..." or "baba..." of n characters
Alternating(n, c) == [i \in 1..n |-> IF i % 2 = 1 THEN c ELSE CHOOSE d \in Chars : d # c]

CommentRunTexts == {<<>>} \cup {Alternating(n, c) : n \in 1..MaxCommentRunLen, c \in Chars}

CommentItems ==
    {Run(t, "f1") : t \in CommentRunTexts}
    \cup {Elem("ins", 1, "A", <<>>, NoRpr, <<Run(<<"a">>, "f2")>>)}

CommentParagraphs == UNION {[1..k -> CommentItems] : k \in 1..MaxRuns}

TargetTexts == {Alternating(n, c) : n \in 1..(MaxCommentRunLen + 1), c \in Chars}

InitComment ==
    /\ file \in {OneParagraphFile(kids) : kids \in CommentParagraphs}
    /\ pc = "idle"
    /\ loc = NoLocals
    /\ last = NoCall(file)
    /\ calls = 0
    /\ orig = file
    /\ fp = <<>>
    /\ fs = <<>>
    /\ fm = NotSearched
    /\ race = NoRace
    /\ ext = NoExt

\* a comment on the paragraph, and a second one once it carries the first
NextComment ==
    \/ \E t \in TargetTexts, c \in CommentTexts, a \in Authors : calls = 0 /\ AddComment(t, c, a)
    \/ \E t \in TargetTexts, c \in CommentTexts, a \in Authors : calls = 1 /\ last.res.success /\ AddComment(t, c, a)

SpecComment == InitComment /\ [][NextComment]_vars

-----------------------------------------------------------------------------
(* track_replace followed by reject_tracked_changes, on one paragraph of    *)
(* every small run layout without tracked changes                           *)

ReplaceParagraphs == UNION {[1..k -> {Run(t, "f1") : t \in Strs(MaxRunLen)}] : k \in 1..MaxRuns}

OldTexts == Strs(MaxRunLen) \ {<<>>}

ReplacementTexts == Strs(MaxRunLen)

InitReplace ==
    /\ file \in {OneParagraphFile(kids) : kids \in ReplaceParagraphs}
    /\ pc = "idle"
    /\ loc = NoLocals
    /\ last = NoCall(file)
    /\ calls = 0
    /\ orig = file
    /\ fp = <<>>
    /\ fs = <<>>
    /\ fm = NotSearched
    /\ race = NoRace
    /\ ext = NoExt

NextReplace ==
    \/ \E t \in OldTexts, n \in ReplacementTexts, a \in Authors : calls = 0 /\ TrackReplaceCall(t, n, a)
    \/ ReplaceSearch
    \/ ReplaceIter
    \/ ReplaceIterUntracked
    \/ ReplaceNextParagraph
    \/ ReplaceReturn
    \/ calls = 1 /\ RejectTrackedChanges(NoFilter)

SpecReplace == InitReplace /\ [][NextReplace]_vars

\* the same calls on the paragraph with the runs "a", "ab", where the
\* interpreter runs a started call on: every enabled step of the loop is
\* eventually taken
InitLoop == InitReplace /\ file = OneParagraphFile(<<Run(<<"a">>, "f1"), Run(<<"a", "b">>, "f1")>>)

FairSpecReplace ==
    /\ InitLoop
    /\ [][NextReplace]_vars
    /\ WF_vars(ReplaceSearch)
    /\ WF_vars(ReplaceIter)
    /\ WF_vars(ReplaceIterUntracked)
    /\ WF_vars(ReplaceNextParagraph)
    /\ WF_vars(ReplaceReturn)

-----------------------------------------------------------------------------
(* add_comment and add-hyperlink calls on packages that have a relationship *)
(* manifest and a content-types entry, with or without a comments           *)
(* relationship, a comments override and a comments part                    *)

ManifestDoc == <<Para(<<Run(<<"a">>, "f1"), Run(<<"b">>, NoRpr)>>), Para(<<Run(<<"b">>, "f2")>>)>>

CommentsRel == Relationship(2, COMMENTS_REL_TYPE, "comments.xml", FALSE)

ManifestZips ==
    { <<Entry(CTYPES, StartTypes \o ct), Entry(RELS, StartRels \o rel), Entry(DOC, ManifestDoc)>> \o part :
        ct \in {<<>>, <<Override(COMMENTS_PART)>>},
        rel \in {<<>>, <<CommentsRel>>},
        part \in {<<>>, <<Entry(COMMENTS, <<Comment(3, "B", "B", <<"c">>)>>)>>} }

ManifestTexts == {<<"a">>, <<"b">>}

ManifestIndexes == {-1, 0, 1, 2}

InitManifest ==
    /\ file \in {File(TRUE, TRUE, zip) : zip \in ManifestZips}
    /\ pc = "idle"
    /\ loc = NoLocals
    /\ last = NoCall(file)
    /\ calls = 0
    /\ orig = file
    /\ fp = <<>>
    /\ fs = <<>>
    /\ fm = NotSearched
    /\ race = NoRace
    /\ ext = NoExt

NextManifest ==
    \/ \E t \in ManifestTexts, c \in CommentTexts, a \in Authors : AddComment(t, c, a)
    \/ \E t \in ManifestTexts : AddHyperlink(t, Url, FALSE, 0)
    \/ \E t \in ManifestTexts, i \in ManifestIndexes : AddHyperlink(t, Url, TRUE, i)

SpecManifest == InitManifest /\ [][NextManifest]_vars

-----------------------------------------------------------------------------
(* track_delete, list_tracked_changes and accept_tracked_changes, in this   *)
(* order, on one paragraph of every small run layout without tracked        *)
(* changes                                                                  *)

Fox == <<"f", "o", "x">>

DeleteTexts == (Strs(MaxRunLen) \ {<<>>}) \cup {Fox}

DeleteAuthors == {"A", "B"}

InitDelete ==
    /\ file \in {OneParagraphFile(kids) : kids \in ReplaceParagraphs \cup {FoxParagraph}}
    /\ pc = "idle"
    /\ loc = NoLocals
    /\ last = NoCall(file)
    /\ calls = 0
    /\ orig = file
    /\ fp = <<>>
    /\ fs = <<>>
    /\ fm = NotSearched
    /\ race = NoRace
    /\ ext = NoExt

NextDelete ==
    \/ \E t \in DeleteTexts, a \in DeleteAuthors : calls = 0 /\ TrackDelete(t, a)
    \/ calls = 1 /\ last.res.success /\ ListTrackedChanges
    \/ calls = 2 /\ AcceptTrackedChanges(NoFilter)

SpecDelete == InitDelete /\ [][NextDelete]_vars

-----------------------------------------------------------------------------
(* accept_tracked_changes and reject_tracked_changes with filters, after    *)
(* track_insert and track_delete calls of two authors on a paragraph that   *)
(* may hold wrappers without an id or with a non-integer id                 *)

MaxEdits == 2        \* edits before the accept or reject

NoIdDel == Elem("del", NoId, "B", <<>>, NoRpr, <<_make_run(<<"d">>, NoRpr, TRUE)>>)

BadIdIns == Elem("ins", BadId, "A", <<>>, NoRpr, <<Run(<<"c">>, NoRpr)>>)

FilterParagraphs ==
    { <<Run(<<"a">>, "f1"), Run(<<"b">>, "f1")>>,
      <<Run(<<"a">>, "f1"), BadIdIns, Run(<<"b">>, "f1")>>,
      <<NoIdDel, Run(<<"a", "b">>, "f1"), BadIdIns>>,
      <<Elem("ins", 5, "A", <<>>, NoRpr, <<Run(<<"a">>, "f1"), BadIdIns>>), Run(<<"b">>, "f1")>> }

FilterAuthors == {"A", "B"}

FilterTexts == {<<"a">>, <<"b">>}

FilterSet ==
    { NoFilter,
      Filter(TRUE, {}, FALSE, ""),
      Filter(TRUE, {1}, FALSE, ""),
      Filter(TRUE, {2, 5}, FALSE, ""),
      Filter(FALSE, {}, TRUE, "A"),
      Filter(FALSE, {}, TRUE, "B"),
      Filter(TRUE, {1, 2}, TRUE, "B") }

InitFilter ==
    /\ file \in {OneParagraphFile(kids) : kids \in FilterParagraphs}
    /\ pc = "idle"
    /\ loc = NoLocals
    /\ last = NoCall(file)
    /\ calls = 0
    /\ orig = file
    /\ fp = <<>>
    /\ fs = <<>>
    /\ fm = NotSearched
    /\ race = NoRace
    /\ ext = NoExt

Settled == last.op \in {"accept_tracked_changes", "reject_tracked_changes"}

NextFilter ==
    \/ \E t \in FilterTexts, a \in FilterAuthors : calls < MaxEdits /\ ~Settled /\ TrackInsert(t, <<"b">>, a)
    \/ \E t \in FilterTexts, a \in FilterAuthors : calls < MaxEdits /\ ~Settled /\ TrackDelete(t, a)
    \/ \E f \in FilterSet : ~Settled /\ AcceptTrackedChanges(f)
    \/ \E f \in FilterSet : ~Settled /\ RejectTrackedChanges(f)

SpecFilter == InitFilter /\ [][NextFilter]_vars

-----------------------------------------------------------------------------
(* track_insert, once or twice, on documents of two paragraphs *)

InsertParagraphs ==
    { <<Run(<<"a">>, "f1"), Run(<<"a", "b">>, "f2")>>,
      <<Run(<<"b">>, "f1")>>,
      <<Run(<<"b", "a">>, NoRpr), Elem("ins", 7, "B", <<>>, NoRpr, <<Run(<<"a", "b">>, "f1")>>)>>,
      <<Elem("del", 8, "B", <<>>, NoRpr, <<_make_run(<<"a">>, "f1", TRUE)>>), Run(<<"b", "b">>, "f1")>>,
      <<>> }

AfterTexts == Strs(MaxRunLen)

InsertedTexts == {<<"b">>, <<"a", "b">>, <<>>}

InitInsert ==
    /\ file \in {File(TRUE, TRUE, <<Entry(RELS, StartRels), Entry(DOC, <<Para(p1), Para(p2)>>)>>) : p1 \in InsertParagraphs, p2 \in InsertParagraphs}
    /\ pc = "idle"
    /\ loc = NoLocals
    /\ last = NoCall(file)
    /\ calls = 0
    /\ orig = file
    /\ fp = <<>>
    /\ fs = <<>>
    /\ fm = NotSearched
    /\ race = NoRace
    /\ ext = NoExt

NextInsert ==
    \/ \E t \in AfterTexts, n \in InsertedTexts, a \in Authors : calls = 0 /\ TrackInsert(t, n, a)
    \/ \E t \in AfterTexts, n \in InsertedTexts, a \in Authors : calls = 1 /\ last.res.success /\ TrackInsert(t, n, a)

SpecInsert == InitInsert /\ [][NextInsert]_vars

-----------------------------------------------------------------------------
(* track_replace on one paragraph whose runs differ in formatting *)

FormatRuns == {Run(t, r) : t \in {<<"a", "b">>, <<"b">>}, r \in {"f1", "f2", NoRpr, EmptyRpr}}

FormatParagraphs == UNION {[1..k -> FormatRuns] : k \in 1..2}

FormatOldTexts == {<<"b">>, <<"a", "b">>, <<"b", "a">>, <<"b", "a", "b">>}

FormatNewTexts == {<<"c">>, <<"b">>}

InitFormat ==
    /\ file \in {OneParagraphFile(kids) : kids \in FormatParagraphs}
    /\ pc = "idle"
    /\ loc = NoLocals
    /\ last = NoCall(file)
    /\ calls = 0
    /\ orig = file
    /\ fp = <<>>
    /\ fs = <<>>
    /\ fm = NotSearched
    /\ race = NoRace
    /\ ext = NoExt

NextFormat ==
    \/ \E t \in FormatOldTexts, n \in FormatNewTexts, a \in Authors : calls = 0 /\ TrackReplaceCall(t, n, a)
    \/ ReplaceSearch
    \/ ReplaceIter
    \/ ReplaceIterUntracked
    \/ ReplaceNextParagraph
    \/ ReplaceReturn

SpecFormat == InitFormat /\ [][NextFormat]_vars

-----------------------------------------------------------------------------
(* Two callers of one path.  The tools are coroutines without an await, so  *)
(* calls inside one server process run one after the other; the callers     *)
(* here are two processes.  A call touches the file three times:            *)
(* filepath.read_bytes() in the loader, and the open(mode "wb") and the     *)
(* write of filepath.write_bytes(buffer.getvalue()); everything between is  *)
(* computed in the caller's memory.  No step looks at the other caller.     *)

Callers == {1, 2}

Request(op, a1, a2) == [op |-> op, a1 |-> a1, a2 |-> a2]

NoRequest == Request("none", <<>>, <<>>)

RaceRequests == {Request("track_insert", <<"a">>, <<"b">>), Request("track_delete", <<"b">>, <<>>), Request("add_comment", <<"a">>, <<"c">>), Request("accept_tracked_changes", <<>>, <<>>)}

\* the bytes of a file that two overlapping writes have left: not an archive
Corrupt == <<Entry("corrupt", <<>>)>>

\* zipfile.ZipFile(BytesIO(zip_bytes)) raises BadZipFile on bytes that are
\* no archive; otherwise the core function of the request runs on them
CoreOf(r, zip_bytes) ==
    IF zip_bytes \in {<<>>, Corrupt} THEN Raised(zip_bytes)
    ELSE CASE r.op = "track_insert" -> track_insert_in_doc(zip_bytes, r.a1, r.a2, "A")
           [] r.op = "track_delete" -> track_delete_in_doc(zip_bytes, r.a1, "A")
           [] r.op = "add_comment" -> add_comment_to_doc(zip_bytes, r.a1, r.a2, "A", "AYK")
           [] OTHER -> accept_tracked_changes_in_doc(zip_bytes, NoFilter)

Proc(at, req, zip_bytes, out, res) == [pc |-> at, req |-> req, zip_bytes |-> zip_bytes, out |-> out, res |-> res]

NotStarted == Proc("idle", NoRequest, <<>>, Returned(<<>>, Fail("")), Fail(""))

WrittenKeepsDisk(buffer, on_disk) == {on_disk}

\* what the file holds after the write of write_bytes: the buffer when the
\* file is as this caller's open left it (empty); when another caller has
\* written since, the two writes overlap and the file holds the buffer or,
\* when the buffer is the shorter, bytes of both
Written(buffer, on_disk) == IF on_disk = <<>> THEN {buffer} ELSE {buffer, Corrupt}

Event(c, what) == <<c, what>>

\* the tool's checks and _load_document_xml's filepath.read_bytes()
Load(c, r) ==
    /\ race.proc[c].pc = "idle"
    /\ IF Precheck(file, FALSE) # ""
       THEN race' = [race EXCEPT !.proc[c] = Proc("done", r, <<>>, @.out, Fail(Precheck(file, FALSE)))]
       ELSE race' = [race EXCEPT !.proc[c] = Proc("loaded", r, file.entries, @.out, @.res),
                                 !.trace = Append(@, Event(c, "load"))]
    /\ UNCHANGED <<file, pc, loc, last, calls, orig, fp, fs, fm, ext>>

\* the core function on the loaded bytes, up to the open(mode "wb") of
\* write_bytes, which truncates the file; a call that raises or has nothing
\* to write returns here
OpenForWrite(c) ==
    /\ race.proc[c].pc = "loaded"
    /\ \E o \in {CoreOf(race.proc[c].req, race.proc[c].zip_bytes)} :
          IF o.raised
          THEN /\ race' = [race EXCEPT !.proc[c].pc = "done", !.proc[c].res = Fail("Failed: exception")]
               /\ UNCHANGED file
          ELSE IF ~o.write
          THEN /\ race' = [race EXCEPT !.proc[c].pc = "done", !.proc[c].res = o.res]
               /\ UNCHANGED file
          ELSE /\ race' = [race EXCEPT !.proc[c].pc = "writing", !.proc[c].out = o,
                                       !.trace = Append(@, Event(c, "open"))]
               /\ file' = write_bytes(file, <<>>)
    /\ UNCHANGED <<pc, loc, last, calls, orig, fp, fs, fm, ext>>

\* the write of write_bytes and the return of the result
Write(c) ==
    /\ race.proc[c].pc = "writing"
    /\ \E bytes \in Written(race.proc[c].out.zip, file.entries) : file' = write_bytes(file, bytes)
    /\ race' = [race EXCEPT !.proc[c].pc = "done", !.proc[c].res = race.proc[c].out.res,
                            !.trace = Append(@, Event(c, "write"))]
    /\ UNCHANGED <<pc, loc, last, calls, orig, fp, fs, fm, ext>>

InitRace ==
    /\ file \in {OneParagraphFile(kids) : kids \in ReplaceParagraphs}
    /\ pc = "idle"
    /\ loc = NoLocals
    /\ last = NoCall(file)
    /\ calls = 0
    /\ orig = file
    /\ fp = <<>>
    /\ fs = <<>>
    /\ fm = NotSearched
    /\ race = [proc |-> [c \in Callers |-> NotStarted], trace |-> <<>>]
    /\ ext = NoExt

NextRace ==
    \/ \E c \in Callers, r \in RaceRequests : Load(c, r)
    \/ \E c \in Callers : OpenForWrite(c)
    \/ \E c \in Callers : Write(c)

SpecRace == InitRace /\ [][NextRace]_vars

-----------------------------------------------------------------------------
(* One track_delete, step by step, on one or two paragraphs that may hold   *)
(* tracked changes; the interpreter runs a started call on, so every        *)
(* enabled step of the loop is eventually taken                             *)

\* "ab" inside an insertion with id 5, followed by "ba"
TrackedParagraph == <<Elem("ins", 5, "A", <<>>, NoRpr, <<Run(<<"a", "b">>, "f1")>>), Run(<<"b", "a">>, "f1")>>

DeleteLoopParagraphs == ReplaceParagraphs \cup FilterParagraphs \cup {FoxParagraph, TrackedParagraph}

DeleteLoopDocs == {<<Para(k)>> : k \in DeleteLoopParagraphs} \cup {<<Para(k), Para(<<Run(<<"a", "b">>, "f2"), Run(<<"a">>, NoRpr)>>)>> : k \in ReplaceParagraphs}

DocFile(doc) == File(TRUE, TRUE, <<Entry(CTYPES, StartTypes), Entry(RELS, StartRels), Entry(DOC, doc)>>)

InitDeleteLoop ==
    /\ file \in {DocFile(doc) : doc \in DeleteLoopDocs}
    /\ pc = "idle"
    /\ loc = NoLocals
    /\ last = NoCall(file)
    /\ calls = 0
    /\ orig = file
    /\ fp = <<>>
    /\ fs = <<>>
    /\ fm = NotSearched
    /\ race = NoRace
    /\ ext = NoExt

NextDeleteLoop ==
    \/ \E t \in DeleteTexts, a \in DeleteAuthors : calls = 0 /\ TrackDeleteCall(t, a)
    \/ DeletePass
    \/ DeleteReturn

FairSpecDelete ==
    /\ InitDeleteLoop
    /\ [][NextDeleteLoop]_vars
    /\ WF_vars(DeletePass)
    /\ WF_vars(DeleteReturn)

-----------------------------------------------------------------------------
(* add_hyperlink on one paragraph whose runs differ in formatting, lie      *)
(* inside tracked-change wrappers or have no text, up to two calls          *)

NoTextRun == Elem("rNone", NoId, "", <<>>, "f2", <<>>)

HyperlinkParagraphs ==
    FormatParagraphs \cup FilterParagraphs
    \cup { TrackedParagraph,
           <<Run(<<"a", "b">>, "f1"), NoTextRun, Run(<<"a", "b">>, "f2"), Run(<<"a">>, NoRpr)>>,
           <<Run(<<"b", "a">>, "f1"), Elem("ins", 5, "A", <<>>, NoRpr, <<Run(<<"b">>, "f2"), Run(<<"a", "b">>, NoRpr)>>), Run(<<"a">>, "f1")>> }

HyperlinkTexts == FormatOldTexts \cup {<<"a">>, <<"a", "b", "a">>}

MaxLinks == 2        \* add_hyperlink calls per behaviour

InitHyperlink ==
    /\ file \in {OneParagraphFile(kids) : kids \in HyperlinkParagraphs}
    /\ pc = "idle"
    /\ loc = NoLocals
    /\ last = NoCall(file)
    /\ calls = 0
    /\ orig = file
    /\ fp = <<>>
    /\ fs = <<>>
    /\ fm = NotSearched
    /\ race = NoRace
    /\ ext = NoExt

NextHyperlink ==
    \/ \E t \in HyperlinkTexts : calls < MaxLinks /\ AddHyperlink(t, Url, FALSE, 0)
    \/ \E t \in HyperlinkTexts : calls < MaxLinks /\ AddHyperlink(t, Url, TRUE, 0)

SpecHyperlink == InitHyperlink /\ [][NextHyperlink]_vars

-----------------------------------------------------------------------------
(* list_tracked_changes after up to MaxEdits edits, on a paragraph that may *)
(* hold nested wrappers, wrappers without an integer id or author, a        *)
(* deletion whose w:delText is empty, and more than ContextLen characters   *)

\* ContextLen times "x", then "y": no edit of this specification matches in it
LongText == [i \in 1..(ContextLen + 1) |-> IF i <= ContextLen THEN "x" ELSE "y"]

\* a deletion that holds an empty w:delText and a w:t
EmptyDelText == Elem("del", 7, "B", <<>>, NoRpr, <<_make_run(<<>>, NoRpr, TRUE), Run(<<"d">>, NoRpr)>>)

\* an insertion without an author attribute
NoAuthorIns == Elem("ins", 8, "", <<>>, NoRpr, <<Run(<<"c">>, NoRpr)>>)

ListParagraphs ==
    FilterParagraphs
    \cup { <<Run(<<"a">>, "f1"), EmptyDelText, Run(<<"b">>, "f1")>>,
           <<NoAuthorIns, Run(<<"a", "b">>, "f1"), NoIdDel>>,
           <<Elem("ins", 5, "A", <<>>, NoRpr, <<Run(<<"b">>, "f1")>>), Run(LongText, "f1"), NoIdDel>>,
           <<Elem("del", 5, "A", <<>>, NoRpr, <<_make_run(<<"a">>, NoRpr, TRUE), Elem("ins", 6, "B", <<>>, NoRpr, <<Run(<<"b">>, NoRpr)>>)>>), Run(<<"a">>, NoRpr)>> }

ListDocs == {<<Para(k)>> : k \in ListParagraphs} \cup {<<Para(k), Para(j)>> : k \in FilterParagraphs, j \in ListParagraphs \ FilterParagraphs}

InitList ==
    /\ file \in {DocFile(doc) : doc \in ListDocs}
    /\ pc = "idle"
    /\ loc = NoLocals
    /\ last = NoCall(file)
    /\ calls = 0
    /\ orig = file
    /\ fp = <<>>
    /\ fs = <<>>
    /\ fm = NotSearched
    /\ race = NoRace
    /\ ext = NoExt

NextList ==
    \/ \E t \in FilterTexts, a \in FilterAuthors : calls < MaxEdits /\ last.op # "list_tracked_changes" /\ TrackInsert(t, <<"b">>, a)
    \/ \E t \in FilterTexts, a \in FilterAuthors : calls < MaxEdits /\ last.op # "list_tracked_changes" /\ TrackDelete(t, a)
    \/ last.op # "list_tracked_changes" /\ ListTrackedChanges

SpecList == InitList /\ [][NextList]_vars

-----------------------------------------------------------------------------
(* save_utils.py: the hook around Document.save of the document library.    *)
(* The library's own save is a collaborator: it replaces the file at the    *)
(* path by the archive of the document it holds (ext.saving), whatever the  *)
(* file held.  ext.at is the position inside _hooked_save: "idle", or       *)
(* "extracted" (before _original_save), or "saved" (after it).              *)

COMMENTS_EXTENDED == "word/commentsExtended.xml"

CUSTOM_PARTS_TO_PRESERVE == <<COMMENTS, COMMENTS_EXTENDED, "word/commentsIds.xml", "word/commentsExtensible.xml">>

COMMENT_REL_TYPES == {COMMENTS_REL_TYPE, "commentsExtended", "commentsIds", "commentsExtensible"}

\* the part names for which "comment" in part_name.lower() holds
CommentPartNames == {COMMENTS_PART, "/word/commentsExtended.xml", "/word/commentsIds.xml", "/word/commentsExtensible.xml"}

\* the bytes of a part that etree.fromstring rejects
NotXml == Bytes("not xml")

\* zipfile.ZipFile(BytesIO(zip_bytes)) opens it
IsArchive(zip_bytes) == zip_bytes \notin {<<>>, Corrupt}

Preserved(parts, rels, overrides) == [parts |-> parts, rels |-> rels, overrides |-> overrides]

\* what a call made inside try/except gives: it raised, or its value
Tried(raised, value) == [raised |-> raised, value |-> value]

\* lines 34-77; None when there is nothing to preserve
_extract_custom_parts(zip_bytes) ==
    IF ~IsArchive(zip_bytes) THEN Tried(TRUE, None)
    ELSE LET parts == Concat([i \in 1..Len(CUSTOM_PARTS_TO_PRESERVE) |->
                          IF HasPart(zip_bytes, CUSTOM_PARTS_TO_PRESERVE[i])
                          THEN <<Entry(CUSTOM_PARTS_TO_PRESERVE[i], _load_zip_part(zip_bytes, CUSTOM_PARTS_TO_PRESERVE[i]))>>
                          ELSE <<>>])
         IN  IF parts = <<>> THEN Tried(FALSE, None)
             ELSE IF HasPart(zip_bytes, RELS) /\ _load_zip_part(zip_bytes, RELS) = NotXml THEN Tried(TRUE, None)
             ELSE IF HasPart(zip_bytes, CTYPES) /\ _load_zip_part(zip_bytes, CTYPES) = NotXml THEN Tried(TRUE, None)
             ELSE Tried(FALSE, Preserved(parts,
                      IF HasPart(zip_bytes, RELS) THEN SelectSeq(_load_zip_part(zip_bytes, RELS), LAMBDA r : r.type \in COMMENT_REL_TYPES) ELSE <<>>,
                      IF HasPart(zip_bytes, CTYPES) THEN SelectSeq(_load_zip_part(zip_bytes, CTYPES), LAMBDA o : o.part \in CommentPartNames) ELSE <<>>))

\* (mutation: the preserved id is kept although it is in use)
KeepsRid(rid, rels_root) == rid

\* lines 104-114: the preserved id, or "rId" + (largest numeric suffix + 1)
\* when the manifest already uses it
FreshRid(rid, rels_root) ==
    IF \E i \in 1..Len(rels_root) : rels_root[i].rid = rid /\ rid # NoId THEN MaxOf(Rids(rels_root), 0) + 1 ELSE rid

\* lines 98-121: the loop over preserved["rels"]; new_rel.set("Id", None)
\* raises for a preserved relationship without an Id attribute
RECURSIVE AddRels(_, _)
AddRels(rels_root, todo) ==
    IF todo = <<>> THEN Tried(FALSE, rels_root)
    ELSE IF \E i \in 1..Len(rels_root) : rels_root[i].type = Head(todo).type THEN AddRels(rels_root, Tail(todo))
    ELSE IF Head(todo).rid = NoId THEN Tried(TRUE, rels_root)
    ELSE AddRels(Append(rels_root, Relationship(FreshRid(Head(todo).rid, rels_root), Head(todo).type, Head(todo).target, FALSE)), Tail(todo))

\* lines 136-141: the loop over preserved["overrides"]
RECURSIVE AddOverrides(_, _)
AddOverrides(ct_root, todo) ==
    IF todo = <<>> THEN ct_root
    ELSE IF \E i \in 1..Len(ct_root) : ct_root[i].part = Head(todo).part THEN AddOverrides(ct_root, Tail(todo))
    ELSE AddOverrides(Append(ct_root, Head(todo)), Tail(todo))

\* lines 80-165 on the bytes of the saved file: it raises, or gives the
\* bytes that filepath.write_bytes writes
_reinject_custom_parts(zip_bytes, preserved) ==
    IF ~IsArchive(zip_bytes) THEN Tried(TRUE, zip_bytes)
    ELSE LET patch_rels == preserved.rels # <<>> /\ HasPart(zip_bytes, RELS)
             patch_ct == preserved.overrides # <<>> /\ HasPart(zip_bytes, CTYPES)
             rels == IF patch_rels THEN AddRels(_load_zip_part(zip_bytes, RELS), preserved.rels) ELSE Tried(FALSE, <<>>)
             copied == [i \in 1..Len(zip_bytes) |->
                          IF zip_bytes[i].name = RELS /\ patch_rels THEN Entry(RELS, rels.value)
                          ELSE IF zip_bytes[i].name = CTYPES /\ patch_ct THEN Entry(CTYPES, AddOverrides(zip_bytes[i].data, preserved.overrides))
                          ELSE zip_bytes[i]]
         IN  IF rels.raised THEN Tried(TRUE, zip_bytes)
             ELSE Tried(FALSE, copied \o SelectSeq(preserved.parts, LAMBDA e : ~HasPart(zip_bytes, e.name)))

InstallAlways(wraps) == wraps + 1

\* lines 177-178 and 208-209: Document.save is wrapped unless the current one
\* carries _custom_parts_hooked
Install(wraps) == IF wraps > 0 THEN wraps ELSE wraps + 1

Hook(wraps, at, saving, preserved, before, plain, log) == [wraps |-> wraps, at |-> at, saving |-> saving, preserved |-> preserved, before |-> before, plain |-> plain, log |-> log]

SaveDone(before) == Call("save", <<>>, <<>>, NoFilter, NoIndex, Res(TRUE, "", 0, NoId), before, {})

\* install_save_hook()
InstallSaveHook ==
    /\ ext.at = "idle"
    /\ calls < MaxOps
    /\ calls' = calls + 1
    /\ ext' = [ext EXCEPT !.wraps = Install(@)]
    /\ UNCHANGED <<file, pc, loc, last, orig, fp, fs, fm, race>>

\* document.save(path) with the hook in place, lines 184-194: the parts are
\* read from the file that is there
SaveExtract(saving) ==
    /\ ext.at = "idle"
    /\ ext.wraps > 0
    /\ calls < MaxOps
    /\ calls' = calls + 1
    /\ \E x \in {IF file.exists THEN _extract_custom_parts(file.entries) ELSE Tried(FALSE, None)} :
          ext' = Hook(ext.wraps, "extracted", saving, IF x.raised THEN None ELSE x.value, file, file, <<"extract">>)
    /\ UNCHANGED <<file, pc, loc, last, orig, fp, fs, fm, race>>

\* line 197: _original_save(self, path_or_stream) writes the document
OriginalSave ==
    /\ ext.at = "extracted"
    /\ file' = File(TRUE, TRUE, ext.saving)
    /\ ext' = [ext EXCEPT !.at = "saved", !.plain = File(TRUE, TRUE, ext.saving), !.log = Append(@, "save")]
    /\ UNCHANGED <<pc, loc, last, calls, orig, fp, fs, fm, race>>

\* lines 199-204: re-injection inside try/except, and the return
SaveReinject ==
    /\ ext.at = "saved"
    /\ IF ext.preserved = None
       THEN /\ UNCHANGED file
            /\ ext' = [ext EXCEPT !.at = "idle"]
       ELSE /\ \E r \in {_reinject_custom_parts(file.entries, ext.preserved)} :
                  file' = IF r.raised THEN file ELSE write_bytes(file, r.value)
            /\ ext' = [ext EXCEPT !.at = "idle", !.log = Append(@, "reinject")]
    /\ last' = SaveDone(ext.before)
    /\ UNCHANGED <<pc, loc, calls, orig, fp, fs, fm, race>>

\* document.save(path) without the hook, or document.save(stream) (lines
\* 205-207): the library's save alone; a stream is not the file
SaveDirect(saving, to_path) ==
    /\ ext.at = "idle"
    /\ ext.wraps = 0 \/ ~to_path
    /\ calls < MaxOps
    /\ calls' = calls + 1
    /\ file' = IF to_path THEN File(TRUE, TRUE, saving) ELSE file
    /\ ext' = Hook(ext.wraps, "idle", saving, None, file, file', <<IF to_path THEN "save" ELSE "stream">>)
    /\ last' = SaveDone(file)
    /\ UNCHANGED <<pc, loc, orig, fp, fs, fm, race>>

-----------------------------------------------------------------------------
(* Saves over files that hold comment parts, with and without the hook      *)

OldComments == Entry(COMMENTS, <<Comment(3, "B", "B", <<"c">>)>>)

OldExtended == Entry(COMMENTS_EXTENDED, Bytes("extended"))

OldRelsSet ==
    { StartRels \o <<Relationship(2, COMMENTS_REL_TYPE, "comments.xml", FALSE)>>,
      StartRels \o <<Relationship(9, COMMENTS_REL_TYPE, "comments.xml", FALSE), Relationship(2, "commentsExtended", "commentsExtended.xml", FALSE)>>,
      StartRels \o <<Relationship(2, COMMENTS_REL_TYPE, "comments.xml", FALSE), Relationship(2, "commentsExtended", "commentsExtended.xml", FALSE), Relationship(3, COMMENTS_REL_TYPE, "other.xml", FALSE)>>,
      StartRels \o <<Relationship(NoId, COMMENTS_REL_TYPE, "comments.xml", FALSE)>>,
      StartRels,
      NotXml }

OldTypesSet == {StartTypes, StartTypes \o <<Override(COMMENTS_PART), Override("/word/commentsExtended.xml")>>, NotXml}

\* the files that may be at the path before a save
HookFiles ==
    { File(TRUE, TRUE, <<Entry(CTYPES, ct), Entry(RELS, rels), Entry(DOC, StartDoc)>> \o parts) :
        ct \in OldTypesSet, rels \in OldRelsSet, parts \in {<<>>, <<OldComments>>, <<OldExtended, OldComments>>} }
    \cup { File(FALSE, FALSE, <<>>), File(TRUE, TRUE, Corrupt),
           File(TRUE, TRUE, <<Entry(DOC, StartDoc), OldComments>>) }

\* the archives the library writes: without comment parts, with a second
\* relationship, and with a comments part of its own
SavedArchives ==
    { <<Entry(CTYPES, StartTypes), Entry(RELS, StartRels), Entry(DOC, ManifestDoc), Entry("word/styles.xml", Bytes("styles"))>>,
      <<Entry(CTYPES, StartTypes), Entry(RELS, StartRels \o <<Relationship(2, "numbering", "numbering.xml", FALSE)>>), Entry(DOC, ManifestDoc)>>,
      <<Entry(CTYPES, StartTypes \o <<Override(COMMENTS_PART)>>), Entry(RELS, StartRels \o <<Relationship(2, COMMENTS_REL_TYPE, "comments.xml", FALSE)>>), Entry(DOC, ManifestDoc), Entry(COMMENTS, <<Comment(1, "A", "A", <<"a">>)>>)>> }

InitHook ==
    /\ file \in HookFiles
    /\ pc = "idle"
    /\ loc = NoLocals
    /\ last = NoCall(file)
    /\ calls = 0
    /\ orig = file
    /\ fp = <<>>
    /\ fs = <<>>
    /\ fm = NotSearched
    /\ race = NoRace
    /\ ext = Hook(0, "idle", <<>>, None, file, file, <<>>)

NextHook ==
    \/ InstallSaveHook
    \/ \E saving \in SavedArchives : SaveExtract(saving)
    \/ OriginalSave
    \/ SaveReinject
    \/ \E saving \in SavedArchives, to_path \in BOOLEAN : SaveDirect(saving, to_path)

SpecHook == InitHook /\ [][NextHook]_vars

-----------------------------------------------------------------------------
(* word_com.py: undo_record, the undo grouping around a block of live       *)
(* mutations.  The word processor is a collaborator: reading its UndoRecord *)
(* and starting or ending a custom record may each raise.  ext.at is the    *)
(* position inside the context manager: "start", "block" (after the yield), *)
(* "finally", or "done" (it has returned or raised to the caller).          *)

UndoNameLen == 64

MaxMutations == 2

MaxNameLen == 65

\* name[:64], by length
Truncated(name_len) == IF name_len > UndoNameLen THEN UndoNameLen ELSE name_len

Undo(at, has_rec, label, open, muts, raised, ends, end_failed, propagated) == [at |-> at, has_rec |-> has_rec, label |-> label, open |-> open, muts |-> muts, raised |-> raised, ends |-> ends, end_failed |-> end_failed, propagated |-> propagated]

\* (mutation: the end is attempted whether or not a record was started)
EndsAlways(has_rec, ends) == ends + 1

\* lines 95-99: rec.EndCustomRecord() is called when rec is not None
EndsAfter(has_rec, ends) == IF has_rec THEN ends + 1 ELSE ends

\* with undo_record(app, name): lines 88-93.  has_record: app.UndoRecord
\* exists; start_ok: StartCustomRecord does not raise
UndoStart(name_len, has_record, start_ok) ==
    /\ ext.at = "done"
    /\ calls < MaxOps
    /\ calls' = calls + 1
    /\ ext' = Undo("block", has_record /\ start_ok,
                   IF has_record /\ start_ok THEN Truncated(name_len) ELSE 0,
                   IF has_record /\ start_ok THEN ext.open + 1 ELSE ext.open,
                   0, FALSE, 0, FALSE, FALSE)
    /\ UNCHANGED <<file, pc, loc, last, orig, fp, fs, fm, race>>

\* one live mutation of the wrapped block
BlockMutate ==
    /\ ext.at = "block"
    /\ ext.muts < MaxMutations
    /\ ext' = [ext EXCEPT !.muts = @ + 1]
    /\ UNCHANGED <<file, pc, loc, last, calls, orig, fp, fs, fm, race>>

\* the block is left, normally or by an exception (line 94-95)
BlockFinish(raises) ==
    /\ ext.at = "block"
    /\ ext' = [ext EXCEPT !.at = "finally", !.raised = raises]
    /\ UNCHANGED <<file, pc, loc, last, calls, orig, fp, fs, fm, race>>

\* lines 95-100: the finally clause, then the return or the re-raise
UndoEnd(end_ok) ==
    /\ ext.at = "finally"
    /\ ext' = [ext EXCEPT !.at = "done",
                          !.ends = EndsAfter(ext.has_rec, @),
                          !.end_failed = ext.has_rec /\ ~end_ok,
                          !.open = IF ext.has_rec /\ end_ok THEN @ - 1 ELSE @,
                          !.propagated = ext.raised]
    /\ UNCHANGED <<file, pc, loc, last, calls, orig, fp, fs, fm, race>>

InitUndo ==
    /\ file = File(FALSE, FALSE, <<>>)
    /\ pc = "idle"
    /\ loc = NoLocals
    /\ last = NoCall(file)
    /\ calls = 0
    /\ orig = file
    /\ fp = <<>>
    /\ fs = <<>>
    /\ fm = NotSearched
    /\ race = NoRace
    /\ ext = Undo("done", FALSE, 0, 0, 0, FALSE, 0, FALSE, FALSE)

NextUndo ==
    \/ \E name_len \in {1, UndoNameLen, MaxNameLen}, has_record \in BOOLEAN, start_ok \in BOOLEAN : UndoStart(name_len, has_record, start_ok)
    \/ BlockMutate
    \/ \E raises \in BOOLEAN : BlockFinish(raises)
    \/ \E end_ok \in BOOLEAN : UndoEnd(end_ok)

SpecUndo == InitUndo /\ [][NextUndo]_vars

-----------------------------------------------------------------------------
(* track_delete on documents without tracked changes, followed by           *)
(* reject_tracked_changes or by the same track_delete again; and            *)
(* track_insert followed by a track_delete that may match inserted text     *)

RepeatTexts == Strs(MaxRunLen) \ {<<>>}

RepeatFiles ==
    {OneParagraphFile(kids) : kids \in ReplaceParagraphs}
    \cup {File(TRUE, TRUE, <<Entry(CTYPES, StartTypes), Entry(RELS, StartRels), Entry(DOC, <<Para(<<Run(<<"a", "a">>, "f1"), Run(<<"b", "b">>, "f2")>>), Para(<<Run(<<"a", "b">>, NoRpr)>>)>>)>>)}

InitRepeat ==
    /\ file \in RepeatFiles
    /\ pc = "idle"
    /\ loc = NoLocals
    /\ last = NoCall(file)
    /\ calls = 0
    /\ orig = file
    /\ fp = <<>>
    /\ fs = <<>>
    /\ fm = NotSearched
    /\ race = NoRace
    /\ ext = NoExt

NextRepeat ==
    \/ \E t \in RepeatTexts, a \in DeleteAuthors : calls = 0 /\ TrackDelete(t, a)
    \/ calls = 1 /\ last.op = "track_delete" /\ last.res.success /\ RejectTrackedChanges(NoFilter)
    \/ \E a \in DeleteAuthors : calls = 1 /\ last.op = "track_delete" /\ last.res.success /\ TrackDelete(last.a1, a)
    \/ \E t \in RepeatTexts : calls = 0 /\ TrackInsert(t, <<"a", "b">>, "A")
    \/ \E t \in RepeatTexts : calls = 1 /\ last.op = "track_insert" /\ last.res.success /\ TrackDelete(t, "B")

SpecRepeat == InitRepeat /\ [][NextRepeat]_vars

-----------------------------------------------------------------------------
(* Properties *)

\* C2: every id allocated by add-comment, track-replace, track-insert or
\* track-delete is strictly greater than every numeric id that the document
\* tree and the comments part held when the call was made.
C2_NewIdAboveEveryExistingId ==
    \A i \in last.allocated : \A j \in NumericIdsPresent(last.before) : i > j

\* C3: in the file, no two tracked-change wrappers share an id, no two comment
\* records share an id, and no wrapper has the id of a comment record.
C3_IdsUnique ==
    LET w == Wrappers(file)
        c == CommentsOf(file)
    IN  /\ \A i, j \in 1..Len(w) : (i # j /\ w[i].id >= 0) => w[i].id # w[j].id
        /\ \A i, j \in 1..Len(c) : i # j => c[i].id # c[j].id
        /\ \A i \in 1..Len(w), j \in 1..Len(c) : w[i].id # c[j].id


\* the archive entries an operation regenerates
Regenerated(c) ==
    IF c.op = "add_comment"
    THEN {DOC, COMMENTS} \cup (IF _has_comments_rel(RelsOf(c.before)) THEN {} ELSE {RELS})
                        \cup (IF HasPart(c.before.entries, CTYPES) /\ HasCommentsOverride(_load_zip_part(c.before.entries, CTYPES)) THEN {} ELSE {CTYPES})
    ELSE IF c.op = "manage_hyperlinks" THEN {DOC, RELS}
    ELSE {DOC}

\* C8: a successful mutating operation writes an archive with the same entry
\* names in the same order (word/comments.xml appended when add-comment had to
\* create it) in which every entry that the operation does not regenerate is
\* identical to the input's.
C8_UntouchedEntriesIdentical ==
    (last.op \in Mutating /\ last.res.success) =>
        LET b == last.before.entries
            a == file.entries
        IN  /\ Names(a) = IF last.op = "add_comment" /\ ~HasPart(b, COMMENTS) THEN Append(Names(b), COMMENTS) ELSE Names(b)
            /\ \A i \in 1..Len(b) : b[i].name \notin Regenerated(last) => a[i] = b[i]

\* add-comment created word/comments.xml and patched the manifest next to an
\* entry it left alone
C8_Witness ==
    /\ last.op = "add_comment" /\ last.res.success
    /\ ~HasPart(last.before.entries, COMMENTS) /\ HasPart(file.entries, COMMENTS)
    /\ RelsOf(file) # RelsOf(last.before)
    /\ HasPart(file.entries, "word/styles.xml")

\* the text runs (w:t) of a list of siblings that are not inside a w:del, in
\* document order
RECURSIVE KeptRuns(_)
KeptRuns(kids) ==
    IF kids = <<>> THEN <<>>
    ELSE (IF Head(kids).tag = "r" THEN <<Head(kids)>>
          ELSE IF Head(kids).tag = "del" THEN <<>>
          ELSE KeptRuns(Head(kids).kids)) \o KeptRuns(Tail(kids))

TagsIn(f) == {DocNodes(DocOf(f))[i].tag : i \in 1..Len(DocNodes(DocOf(f)))}

\* C9: after accept-tracked-changes with no filters the document holds no
\* insertion or deletion wrapper and no deleted text, the text runs that were
\* not inside a deletion are the document's text runs in the same order, and
\* accepting again reports success with count zero and writes nothing.
C9_AcceptKeepsInsertionsDropsDeletions ==
    (last.op = "accept_tracked_changes" /\ last.filter = NoFilter /\ last.res.success) =>
        LET b == DocOf(last.before)
            a == DocOf(file)
            again == accept_tracked_changes(file, NoFilter)
        IN  /\ TagsIn(file) \cap {"ins", "del", "rDel"} = {}
            /\ Len(a) = Len(b)
            /\ \A i \in 1..Len(b) : KeptRuns(a[i].kids) = KeptRuns(b[i].kids)
            /\ again.res.success /\ again.res.count = 0 /\ again.file = file

\* an accept that met an insertion, a deletion and a deletion nested in
\* inserted text
C9_Witness ==
    /\ last.op = "accept_tracked_changes" /\ last.res.success /\ last.res.count >= 3
    /\ \E i \in 1..Len(DocNodes(DocOf(last.before))) :
          LET n == DocNodes(DocOf(last.before))[i]
          IN  n.tag = "ins" /\ \E k \in 1..Len(n.kids) : n.kids[k].tag = "del"
    /\ file # last.before

IsSubstring(s, full) == \E k \in 0..(Len(full) - Len(s)) : SubSeq(full, k + 1, k + Len(s)) = s

\* the search text occurs in no paragraph of the file's document
NotFoundAnywhere(f, t) == \A i \in 1..Len(DocOf(f)) : ~IsSubstring(t, _paragraph_text(DocOf(f)[i].kids))

TextOps == {"add_comment", "track_replace", "track_insert", "track_delete", "manage_hyperlinks"}

\* the error conditions that hold whatever the operation is asked to do with
\* the manifest
ErrorCase(c) ==
    \/ ~c.before.exists
    \/ ~check_file_writeable(c.before)
    \/ c.op \in TextOps /\ c.a1 = <<>>
    \/ c.op \in {"add_comment", "track_insert", "manage_hyperlinks"} /\ c.a2 = <<>>
    \/ c.op \in TextOps /\ NotFoundAnywhere(c.before, c.a1)
    \/ ~HasPart(c.before.entries, DOC)
    \/ c.op = "manage_hyperlinks" /\ c.idx # NoIndex /\ (c.idx < 0 \/ c.idx >= Len(DocOf(c.before)))

FailedUnchanged == ~last.res.success /\ last.res.error # "" /\ file = last.before

ParagraphTexts(f) == [i \in 1..Len(DocOf(f)) |-> _paragraph_text(DocOf(f)[i].kids)]

\* C1: track-replace(old_text, new_text) on a document without tracked changes,
\* followed by reject-tracked-changes with no filters, restores the plain text
\* of every paragraph to its value before the replace.
C1_RejectRestoresText ==
    (calls = 2 /\ pc = "idle" /\ last.op = "reject_tracked_changes" /\ last.res.success /\ last.res.count > 0) =>
        ParagraphTexts(file) = ParagraphTexts(orig)

\* C4: a started track-replace returns: the loop makes finitely many passes.
C4_TrackReplaceReturns == (pc # "idle") ~> (pc = "idle")

\* within the bounds the replacement count reaches MaxIter with a further
\* match only when new_text contains old_text, where every pass puts a fresh
\* copy of old_text into the text that is searched next
CapOnlyWhenContained ==
    (pc = "track_replace_searched" /\ loc.replacements >= MaxIter /\ loc.match # None)
        => IsSubstring(loc.old_text, loc.new_text)

\* the runs with empty text among the text-bearing runs of a file
EmptyRuns(f) == Cardinality({i \in 1..Len(DocNodes(DocOf(f))) : DocNodes(DocOf(f))[i].tag = "r" /\ DocNodes(DocOf(f))[i].text = <<>>})

\* C5: a successful add-comment leaves the plain text of every paragraph as it
\* was (the texts of the before run, the matched runs and the remainder run
\* concatenate to the original text) and creates no run with empty text.
C5_CommentKeepsText ==
    (last.op = "add_comment" /\ last.res.success) =>
        /\ ParagraphTexts(file) = ParagraphTexts(last.before)
        /\ EmptyRuns(file) = EmptyRuns(last.before)
        /\ Len(TextRunPaths(DocOf(file)[1].kids)) <= Len(TextRunPaths(DocOf(last.before)[1].kids)) + 2

\* a comment on text inside one run, after its first and before its last
\* character: a before run and a remainder run were split off
C5_Witness ==
    /\ last.op = "add_comment" /\ last.res.success
    /\ Len(last.a1) = 1
    /\ Len(TextRunPaths(DocOf(file)[1].kids)) = Len(TextRunPaths(DocOf(last.before)[1].kids)) + 2

\* position in a list of siblings of the marker with the tag and the id, 0 if none
MarkerPos(kids, tag, id) ==
    IF \E i \in 1..Len(kids) : kids[i].tag = tag /\ kids[i].id = id
    THEN CHOOSE i \in 1..Len(kids) : kids[i].tag = tag /\ kids[i].id = id
    ELSE 0

\* the siblings lists of a paragraph: the paragraph's own children and the
\* children of every element below it
SiblingLists(p) == {p} \cup {IterAll(p)[i].kids : i \in 1..Len(IterAll(p))}

\* the comment id's markers bracket target_text in the siblings list `kids`
Brackets(kids, id, target_text) ==
    LET sp == MarkerPos(kids, "commentRangeStart", id)
        ep == MarkerPos(kids, "commentRangeEnd", id)
    IN  /\ sp > 0 /\ ep > sp + 1
        /\ kids[sp + 1].tag = "r"
        /\ kids[ep - 1].tag = "r"
        /\ ep + 1 <= Len(kids)
        /\ kids[ep + 1].tag = "rRef" /\ kids[ep + 1].id = id
        /\ _paragraph_text(SubSeq(kids, sp + 1, ep - 1)) = target_text
        /\ kids[sp + 1].text = SubSeq(target_text, 1, Len(kids[sp + 1].text))
        /\ LET n == Len(kids[ep - 1].text)
           IN  kids[ep - 1].text = SubSeq(target_text, Len(target_text) - n + 1, Len(target_text))

\* how many elements of a file's document carry the tag and the id
Carrying(f, tag, id) == Cardinality({i \in 1..Len(DocNodes(DocOf(f))) : DocNodes(DocOf(f))[i].tag = tag /\ DocNodes(DocOf(f))[i].id = id})

\* C6: after a successful add-comment the range-start marker is the previous
\* sibling of the first matched run, the range-end marker the next sibling of
\* the last matched run, the reference run the next sibling of the range-end
\* marker, all three carry the id of the comment record just appended, and the
\* text of the text-bearing runs between the markers is target_text.
C6_MarkersBracketTarget ==
    (last.op = "add_comment" /\ last.res.success) =>
        LET id == last.res.id
            c == CommentsOf(file)
        IN  /\ c = Append(CommentsOf(last.before), Comment(id, "A", "AYK", last.a2))
            /\ Carrying(file, "commentRangeStart", id) = 1
            /\ Carrying(file, "commentRangeEnd", id) = 1
            /\ Carrying(file, "rRef", id) = 1
            /\ \E kids \in SiblingLists(DocOf(file)[1].kids) : Brackets(kids, id, last.a1)

\* a second comment whose target starts inside one run and ends in a later
\* run, across the markers of the first comment
C6_Witness ==
    /\ last.op = "add_comment" /\ last.res.success /\ calls = 2
    /\ CommentsOf(last.before) # <<>>
    /\ LET kids == DocOf(file)[1].kids
           sp == MarkerPos(kids, "commentRangeStart", last.res.id)
           ep == MarkerPos(kids, "commentRangeEnd", last.res.id)
       IN  /\ sp > 1 /\ ep > sp + 2
           /\ kids[sp - 1].tag = "r"
           /\ \E k \in (sp + 1)..(ep - 1) : kids[k].tag = "commentRangeEnd"

\* the search text is at 0-based position q of the text
OccursAt(full, s, q) == q >= 0 /\ q + Len(s) <= Len(full) /\ SubSeq(full, q + 1, q + Len(s)) = s

\* C7: the indexer returns None iff the search text is not a substring of the
\* concatenated text of the text-bearing runs; otherwise consecutive
\* text-bearing runs with offsets 0 <= s <= e <= len(run text) whose pieces
\* concatenate to the search text, starting at the leftmost occurrence; runs
\* ["The qui", "ck brown", " fox"] and "brown" give run 2 with offsets 3..8,
\* before-text "ck " and empty after-text; the paragraph is left as it was.
C7_IndexerReturnsLeftmostMatch ==
    fm.done =>
        LET runs == TextRunPaths(fp)
            texts == [i \in 1..Len(runs) |-> NodeAt(fp, runs[i]).text]
            full == Concat(texts)
            m == fm.match
        IN  /\ (m = None) <=> ~IsSubstring(fs, full)
            /\ m # None =>
                  \E j \in 1..Len(runs) :
                      /\ j + Len(m) - 1 <= Len(runs)
                      /\ \A k \in 1..Len(m) :
                            /\ m[k].run = runs[j + k - 1]
                            /\ 0 <= m[k].s /\ m[k].s <= m[k].e /\ m[k].e <= Len(texts[j + k - 1])
                      /\ Concat([k \in 1..Len(m) |-> SubSeq(texts[j + k - 1], m[k].s + 1, m[k].e)]) = fs
                      /\ LET pos == Len(Concat(SubSeq(texts, 1, j - 1))) + m[1].s
                         IN  OccursAt(full, fs, pos) /\ \A q \in 0..(pos - 1) : ~OccursAt(full, fs, q)
            /\ (fp = FoxParagraph /\ fs = Brown) =>
                  /\ m = <<[run |-> <<2>>, s |-> 3, e |-> 8]>>
                  /\ BeforeText(fp, m) = <<"c", "k", " ">>
                  /\ AfterText(fp, m) = <<>>
            /\ fp = DocOf(orig)[1].kids

\* a match that starts inside one run and ends in a run inside an insertion
\* wrapper, where an earlier position holds a partial occurrence
C7_Witness ==
    /\ fm.done /\ fm.match # None
    /\ Len(fm.match) = 2
    /\ fm.match[1].s > 0
    /\ Len(fm.match[2].run) = 2

\* the relationships of the given type in the file's manifest
RelsOfType(f, type) == SelectSeq(RelsOf(f), LAMBDA r : r.type = type)

TypesOf(f) == IF HasPart(f.entries, CTYPES) THEN _load_zip_part(f.entries, CTYPES) ELSE <<>>

CommentsOverrides(f) == SelectSeq(TypesOf(f), LAMBDA o : o.part = COMMENTS_PART)

\* C11: on a package with a relationship manifest and a content-types entry
\* that starts with at most one comments relationship and override, every
\* successful add-comment leaves word/comments.xml, exactly one relationship of
\* the comments type and exactly one override for /word/comments.xml in the
\* package, and one comment record more than the call found.
C11_CommentsDeclaredOnce ==
    (last.op = "add_comment" /\ last.res.success) =>
        /\ HasPart(file.entries, COMMENTS)
        /\ Len(RelsOfType(file, COMMENTS_REL_TYPE)) = 1
        /\ Len(CommentsOverrides(file)) = 1
        /\ Len(CommentsOf(file)) = Len(CommentsOf(last.before)) + 1

\* a second comment on a package that had no comments part, relationship or
\* override before the first one
C11_Witness ==
    /\ last.op = "add_comment" /\ last.res.success
    /\ ~HasPart(orig.entries, COMMENTS)
    /\ RelsOfType(orig, COMMENTS_REL_TYPE) = <<>>
    /\ CommentsOverrides(orig) = <<>>
    /\ Len(CommentsOf(file)) = 2
    /\ Len(RelsOfType(file, HYPERLINK_REL_TYPE)) >= 1

\* the 0-based positions at which s occurs in full
Occurrences(full, s) == {q \in 0..Len(full) : OccursAt(full, s, q)}

\* full without its (only) occurrence of s
WithoutOccurrence(full, s) ==
    LET q == CHOOSE k \in Occurrences(full, s) : TRUE
    IN  SubSeq(full, 1, q) \o SubSeq(full, q + Len(s) + 1, Len(full))

\* the text t occurs exactly once in the one-paragraph document of f, which
\* has no tracked changes
OccursOnce(f, t) == Wrappers(f) = <<>> /\ Len(DocOf(f)) = 1 /\ Cardinality(Occurrences(ParagraphTexts(f)[1], t)) = 1

\* C12: on a document without tracked changes that holds exactly one
\* occurrence of t, list-tracked-changes after track-delete(t, author A)
\* reports no insertion and exactly one deletion, with text t and author A,
\* and the accept-tracked-changes that follows leaves the original text
\* without that occurrence.
C12_DeleteListAccept ==
    [][ /\ (last.op = "track_delete" /\ last.res.success /\ OccursOnce(orig, last.a1) /\ last'.op = "list_tracked_changes")
            => /\ last'.res.success
               /\ last'.res.insertions = <<>>
               /\ Len(last'.res.deletions) = 1
               /\ last'.res.deletions[1].text = last.a1
               /\ <<last'.res.deletions[1].author>> = last.a2
               /\ file' = file
        /\ (last.op = "list_tracked_changes" /\ last.res.success /\ Len(last.res.deletions) >= 1
              /\ OccursOnce(orig, last.res.deletions[1].text) /\ last'.op = "accept_tracked_changes")
            => /\ last'.res.success
               /\ ParagraphTexts(file') = <<WithoutOccurrence(ParagraphTexts(orig)[1], last.res.deletions[1].text)>>
      ]_vars

\* "fox" deleted from "The quick brown fox", listed and accepted
C12_Witness ==
    /\ last.op = "accept_tracked_changes" /\ last.res.success /\ calls = 3
    /\ ParagraphTexts(orig) = <<_paragraph_text(FoxParagraph)>>
    /\ ParagraphTexts(file) = <<SubSeq(_paragraph_text(FoxParagraph), 1, 16)>>

\* the filtering predicate of accept and reject
Passes(w, f) == (~f.has_ids \/ w.id \in f.ids) /\ (~f.has_author \/ w.author = f.author)

IsWrapper(n) == n.tag \in {"ins", "del"}

Attrs(w) == <<w.tag, w.id, w.author>>

\* the attributes of the wrappers of f that do not pass the filter, in
\* document order
NotPassing(f, filter) == [i \in 1..Len(SelectSeq(Wrappers(f), LAMBDA w : ~Passes(w, filter))) |-> Attrs(SelectSeq(Wrappers(f), LAMBDA w : ~Passes(w, filter))[i])]

Tok(kind, w, text) == [kind |-> kind, attrs |-> Attrs(w), text |-> text]

\* the tag of the wrappers an operation removes with their content
RemovedTag(op) == IF op = "accept_tracked_changes" THEN "del" ELSE "ins"

\* What the document reads after `op` with the filter: every wrapper that
\* does not pass stays around its content, a passing wrapper is removed with
\* its content (deletion on accept, insertion on reject) or replaced by its
\* content (restored is TRUE below a deletion replaced by its content, whose
\* deleted text is text again).
RECURSIVE Reading(_, _, _, _)
Reading(kids, filter, op, restored) ==
    IF kids = <<>> THEN <<>>
    ELSE LET h == Head(kids)
         IN  (IF IsWrapper(h) /\ Passes(h, filter)
              THEN (IF h.tag = RemovedTag(op) THEN <<>> ELSE Reading(h.kids, filter, op, restored \/ h.tag = "del"))
              ELSE IF IsWrapper(h) THEN <<Tok("open", h, <<>>)>> \o Reading(h.kids, filter, op, restored) \o <<Tok("close", h, <<>>)>>
              ELSE IF h.tag = "r" THEN <<Tok("text", h, h.text)>>
              ELSE IF h.tag = "rDel" THEN <<Tok(IF restored THEN "text" ELSE "deleted", [h EXCEPT !.tag = "r"], h.text)>>
              ELSE Reading(h.kids, filter, op, restored))
             \o Reading(Tail(kids), filter, op, restored)

\* the document as it reads: no wrapper passes the filter that asks for ids
\* and gives none
AsIs(kids) == Reading(kids, Filter(TRUE, {}, FALSE, ""), "accept_tracked_changes", FALSE)

Readings(f, filter, op) == [i \in 1..Len(DocOf(f)) |-> Reading(DocOf(f)[i].kids, filter, op, FALSE)]

Settling == last.op \in {"accept_tracked_changes", "reject_tracked_changes"} /\ last.res.success

\* C13: after accept or reject no wrapper that passes the filter is left, and
\* every wrapper that does not pass is still present with its attributes.
C13_NotPassingKept ==
    Settling =>
        /\ \A i \in 1..Len(Wrappers(file)) : ~Passes(Wrappers(file)[i], last.filter)
        /\ NotPassing(file, last.filter) = NotPassing(last.before, last.filter)

\* What does hold: the document reads as Reading says, i.e. a wrapper that
\* does not pass stays where it is in the text with its attributes unless it
\* lies inside a passing wrapper that the operation removes with its content.
ReadsAsFiltered ==
    Settling =>
        /\ \A i \in 1..Len(Wrappers(file)) : ~Passes(Wrappers(file)[i], last.filter)
        /\ [i \in 1..Len(DocOf(file)) |-> AsIs(DocOf(file)[i].kids)] = Readings(last.before, last.filter, last.op)

IsMalformed(w) == w.id \in {NoId, BadId}

\* the attributes of the wrappers of f without an integer id, in document order
Malformed(f) == [i \in 1..Len(SelectSeq(Wrappers(f), IsMalformed)) |-> Attrs(SelectSeq(Wrappers(f), IsMalformed)[i])]

\* the same, leaving out the wrappers that lie inside a passing wrapper which
\* the operation removes with its content
RECURSIVE MalformedOutside(_, _, _)
MalformedOutside(kids, filter, op) ==
    IF kids = <<>> THEN <<>>
    ELSE LET h == Head(kids)
         IN  (IF IsWrapper(h) /\ Passes(h, filter) /\ h.tag = RemovedTag(op) THEN <<>>
              ELSE (IF IsWrapper(h) /\ IsMalformed(h) THEN <<Attrs(h)>> ELSE <<>>) \o MalformedOutside(h.kids, filter, op))
             \o MalformedOutside(Tail(kids), filter, op)

\* C14 as stated: whatever the filters, a wrapper whose id is missing or not an
\* integer is still in the document after accept and after reject, and the
\* call raises nothing.
C14_AsStated ==
    (last.op \in {"accept_tracked_changes", "reject_tracked_changes"} /\ Malformed(last.before) # <<>>) =>
        last.res.success /\ Malformed(file) = Malformed(last.before)

\* C14, amended: when an id set is given, a wrapper whose id is missing or not
\* an integer is excluded by accept and by reject and raises nothing: it is
\* still in the document unless it lies inside a passing wrapper that is
\* removed with its content (without an id set the id is not looked at).
C14_MalformedExcludedByIdSet ==
    (last.op \in {"accept_tracked_changes", "reject_tracked_changes"} /\ last.filter.has_ids /\ Malformed(last.before) # <<>>) =>
        /\ last.res.success
        /\ Malformed(file) = Concat([i \in 1..Len(DocOf(last.before)) |-> MalformedOutside(DocOf(last.before)[i].kids, last.filter, last.op)])

\* an accept with an id set that removes a deletion and leaves the wrappers
\* without an integer id
C14_Witness ==
    /\ last.op = "accept_tracked_changes" /\ last.res.success /\ last.res.count >= 1
    /\ last.filter.has_ids
    /\ Len(Malformed(file)) = 2
    /\ Len(Wrappers(file)) < Len(Wrappers(last.before))

\* full with s put in after the end of the leftmost occurrence of t
InsertedAfterFirst(full, t, s) ==
    LET q == CHOOSE k \in Occurrences(full, t) : \A m \in Occurrences(full, t) : k <= m
    IN  SubSeq(full, 1, q + Len(t)) \o s \o SubSeq(full, q + Len(t) + 1, Len(full))

\* the insertion wrappers below the paragraph
InsOf(p) == SelectSeq(IterAll(p), LAMBDA n : n.tag = "ins")

CountTag(p, tag) == Len(SelectSeq(IterAll(p), LAMBDA n : n.tag = tag))

\* C15: a successful track-insert adds exactly one insertion wrapper, in the
\* first paragraph whose text contains after_text; that paragraph's text
\* becomes the original with insert_text put in right after the end of the
\* first occurrence of after_text, and every other paragraph is unchanged.
C15_InsertAfterFirstOccurrence ==
    (last.op = "track_insert" /\ last.res.success) =>
        LET old == DocOf(last.before)
            new == DocOf(file)
            first == CHOOSE i \in 1..Len(old) : IsSubstring(last.a1, _paragraph_text(old[i].kids)) /\ \A j \in 1..(i - 1) : ~IsSubstring(last.a1, _paragraph_text(old[j].kids))
        IN  /\ \E i \in 1..Len(old) : IsSubstring(last.a1, _paragraph_text(old[i].kids))
            /\ Len(new) = Len(old)
            /\ \A j \in 1..Len(old) : j # first => new[j] = old[j]
            /\ Len(InsOf(new[first].kids)) = Len(InsOf(old[first].kids)) + 1
            /\ CountTag(new[first].kids, "del") = CountTag(old[first].kids, "del")
            /\ \E k \in 1..Len(InsOf(new[first].kids)) : InsOf(new[first].kids)[k].id = last.res.id /\ InsertedText(InsOf(new[first].kids)[k]) = last.a2
            /\ _paragraph_text(new[first].kids) = InsertedAfterFirst(_paragraph_text(old[first].kids), last.a1, last.a2)

\* a second insertion that goes into the second paragraph, after text that
\* ends inside a run, the first paragraph lacking the text
C15_Witness ==
    /\ last.op = "track_insert" /\ last.res.success /\ calls = 2
    /\ ~IsSubstring(last.a1, ParagraphTexts(last.before)[1])
    /\ CountTag(DocOf(file)[2].kids, "r") = CountTag(DocOf(last.before)[2].kids, "r") + 2
    /\ Cardinality(Occurrences(ParagraphTexts(last.before)[2], last.a1)) >= 2

\* the largest numeric suffix N of the ids "rIdN" of the manifest, 0 without one
LargestRid(rels) == CHOOSE n \in {0} \cup {rels[i].rid : i \in 1..Len(rels)} : \A i \in 1..Len(rels) : rels[i].rid <= n

HyperlinksOf(f) == SelectSeq(DocNodes(DocOf(f)), LAMBDA n : n.tag = "hyperlink")

\* C16: a successful add-hyperlink appends exactly one relationship of the
\* hyperlink type with the URL as target and external mode, whether or not the
\* URL is already a target; its id is rIdN with N one more than the largest
\* numeric id of the manifest before the call, the call returns it and the new
\* wrapper refers to it; the hyperlink relationships of successive calls have
\* strictly increasing ids.
C16_HyperlinkRelationship ==
    (last.op = "manage_hyperlinks" /\ last.res.success) =>
        LET old == RelsOf(last.before)
            new == RelsOf(file)
            n == LargestRid(old) + 1
            links == RelsOfType(file, HYPERLINK_REL_TYPE)
        IN  /\ new = Append(old, Relationship(n, HYPERLINK_REL_TYPE, last.a2, TRUE))
            /\ \A i \in 1..Len(old) : old[i].rid # n
            /\ last.res.id = n
            /\ Len(HyperlinksOf(file)) = Len(HyperlinksOf(last.before)) + 1
            /\ Cardinality({i \in 1..Len(HyperlinksOf(file)) : HyperlinksOf(file)[i].rid = n}) = 1
            /\ \A i, j \in 1..Len(links) : i < j => links[i].rid < links[j].rid

\* a third hyperlink with the same URL, a comments relationship having been
\* added in between
C16_Witness ==
    /\ last.op = "manage_hyperlinks" /\ last.res.success
    /\ Len(RelsOfType(file, HYPERLINK_REL_TYPE)) = 3
    /\ Len(RelsOfType(orig, COMMENTS_REL_TYPE)) = 0
    /\ Len(RelsOfType(file, COMMENTS_REL_TYPE)) = 1
    /\ \A i \in 1..3 : RelsOfType(file, HYPERLINK_REL_TYPE)[i].target = last.a2

\* the decimal numeral of an integer
Digit(d) == CASE d = 0 -> "0" [] d = 1 -> "1" [] d = 2 -> "2" [] d = 3 -> "3" [] d = 4 -> "4" [] d = 5 -> "5" [] d = 6 -> "6" [] d = 7 -> "7" [] d = 8 -> "8" [] d = 9 -> "9"

RECURSIVE Numeral(_)
Numeral(i) == IF i < 0 THEN "-" \o Numeral(0 - i) ELSE IF i < 10 THEN Digit(i) ELSE Numeral(i \div 10) \o Digit(i % 10)

\* C17: add-hyperlink with a paragraph index on a document of n paragraphs
\* fails, naming the index and the range 0..n-1 and changing nothing, when
\* the index is outside 0..n-1; otherwise it searches that paragraph only and
\* fails with text-not-found, changing nothing, when that paragraph lacks the
\* text, whatever the other paragraphs hold.
C17_ParagraphIndex ==
    (last.op = "manage_hyperlinks" /\ last.idx # NoIndex) =>
        LET old == DocOf(last.before)
            n == Len(old)
        IN  IF last.idx < 0 \/ last.idx >= n
            THEN /\ ~last.res.success
                 /\ last.res.error = "Paragraph index " \o Numeral(last.idx) \o " out of range (0-" \o Numeral(n - 1) \o ")"
                 /\ file = last.before
            ELSE IF ~IsSubstring(last.a1, _paragraph_text(old[last.idx + 1].kids))
            THEN /\ ~last.res.success
                 /\ last.res.error = "Text not found"
                 /\ file = last.before
            ELSE /\ last.res.success
                 /\ \A j \in 1..n : j # last.idx + 1 => DocOf(file)[j] = old[j]
                 /\ CountTag(DocOf(file)[last.idx + 1].kids, "hyperlink") = CountTag(old[last.idx + 1].kids, "hyperlink") + 1

\* the text is in the first paragraph only and the search is restricted to
\* the second, on a document changed by an earlier call
C17_Witness ==
    /\ last.op = "manage_hyperlinks" /\ last.idx = 1 /\ ~last.res.success
    /\ file # orig
    /\ IsSubstring(last.a1, ParagraphTexts(last.before)[1])
    /\ ~IsSubstring(last.a1, ParagraphTexts(last.before)[2])

\* a pass of track_replace_in_doc's loop that replaces a match
ReplacingPass == pc = "track_replace_searched" /\ pc' = "track_replace" /\ loc.match # None /\ loc.replacements < MaxIter

\* The elements a replacing pass puts in, read from the paragraph after the
\* pass at the place of the first matched run: [before run] deletion,
\* insertion [after run].  after_rpr is the formatting the after run must have.
PassElements(after_rpr) ==
    LET p == loc.root[loc.pi].kids
        mfirst == loc.match[1]
        mlast == loc.match[Len(loc.match)]
        rpr == NodeAt(p, mfirst.run).rpr
        kids == KidsAt(loc'.root[loc.pi].kids, ParentPath(mfirst.run))
        has_before == mfirst.s > 0
        has_after == mlast.e < Len(NodeAt(p, mlast.run).text)
        at == IndexInParent(mfirst.run) + (IF has_before THEN 1 ELSE 0)
    IN  /\ has_before => (kids[at].tag = "r" /\ kids[at].rpr = rpr /\ kids[at].text = SubSeq(NodeAt(p, mfirst.run).text, 1, mfirst.s))
        /\ kids[at + 1].tag = "del" /\ kids[at + 1].kids = <<_make_run(loc.old_text, rpr, TRUE)>>
        /\ kids[at + 2].tag = "ins" /\ kids[at + 2].kids = <<_make_run(loc.new_text, rpr, FALSE)>>
        /\ has_after => (kids[at + 3].tag = "r" /\ kids[at + 3].rpr = after_rpr /\ kids[at + 3].text = SubSeq(NodeAt(p, mlast.run).text, mlast.e + 1, Len(NodeAt(p, mlast.run).text)))

FirstRpr == NodeAt(loc.root[loc.pi].kids, loc.match[1].run).rpr

LastRpr == NodeAt(loc.root[loc.pi].kids, loc.match[Len(loc.match)].run).rpr

\* C18 as stated: in every replacing pass of track-replace the deletion run,
\* the insertion run and both leftover runs carry the formatting record of
\* the first matched run.
C18_AsStated == [][ReplacingPass => PassElements(FirstRpr)]_vars

\* C18, amended: the deletion run, the insertion run and the leftover before
\* run carry the formatting record of the first matched run; the leftover
\* after run carries the formatting record of the last matched run when that
\* run has one with at least one child, and that of the first matched run
\* otherwise.
C18_FormattingOfPass ==
    [][ReplacingPass => PassElements(IF LastRpr \in {NoRpr, EmptyRpr} THEN FirstRpr ELSE LastRpr)]_vars

\* "ba" replaced across the runs "ab" (f1) and "ab" (f2): the after run "b"
\* follows the insertion and has the formatting f2
C18_Witness ==
    /\ last.op = "track_replace" /\ last.res.success /\ pc = "idle"
    /\ DocOf(orig)[1].kids = <<Run(<<"a", "b">>, "f1"), Run(<<"a", "b">>, "f2")>>
    /\ last.a1 = <<"b", "a">>
    /\ LET kids == DocOf(file)[1].kids
       IN  /\ Len(kids) = 4
           /\ kids[3].tag = "ins" /\ kids[3].kids[1].rpr = "f1"
           /\ kids[4] = Run(<<"b">>, "f2")

\* the position of a caller's file operation in the order of all of them; 0
\* when it has not happened
Pos(c, what) == IF \E i \in 1..Len(race.trace) : race.trace[i] = Event(c, what) THEN CHOOSE i \in 1..Len(race.trace) : race.trace[i] = Event(c, what) ELSE 0

BothWrote(first, later) ==
    /\ first # later
    /\ race.proc[first].pc = "done" /\ race.proc[later].pc = "done"
    /\ 0 < Pos(first, "write") /\ Pos(first, "write") < Pos(later, "open") /\ 0 < Pos(later, "write")

\* both callers loaded the file before either touched it
BothLoadedFirst(first, later) == Pos(later, "load") < Pos(first, "open")

\* the later caller loaded after the first one's write: the calls are serialized
Serialized(first, later) == Pos(first, "write") < Pos(later, "load")

\* C19: nothing makes a caller wait for or notice another.  When two callers
\* have both written, one write after the other, both report success; if
\* both had loaded the file before either touched it, the file is what the
\* later writer alone makes of the original file, the first writer's change
\* is not in it; if the later one loaded after the first one's write, it
\* loaded the archive the first one wrote and the file is what it made of
\* that archive.
C19_LostUpdateUnlessSerialized ==
    \A first \in Callers, later \in Callers :
        BothWrote(first, later) =>
            /\ race.proc[first].res.success /\ race.proc[later].res.success
            /\ BothLoadedFirst(first, later) =>
                  /\ race.proc[later].zip_bytes = orig.entries
                  /\ file.entries = CoreOf(race.proc[later].req, orig.entries).zip
            /\ Serialized(first, later) =>
                  /\ race.proc[later].zip_bytes = race.proc[first].out.zip
                  /\ file.entries = CoreOf(race.proc[later].req, race.proc[first].out.zip).zip

\* both callers loaded first, both report success, and the file differs from
\* what the same two calls leave when the later one runs on the first one's
\* archive
C19_Witness ==
    \E first \in Callers, later \in Callers :
        /\ BothWrote(first, later)
        /\ BothLoadedFirst(first, later)
        /\ race.proc[first].res.success /\ race.proc[later].res.success
        /\ race.proc[first].out.zip # orig.entries
        /\ file.entries = CoreOf(race.proc[later].req, orig.entries).zip
        /\ file.entries # CoreOf(race.proc[later].req, race.proc[first].out.zip).zip

\* C20: at every moment the file holds a complete archive, and the bytes a
\* caller has loaded are a complete archive.
C20_WriteBackAtomic ==
    /\ HasPart(file.entries, DOC)
    /\ \A c \in Callers : Pos(c, "load") > 0 => HasPart(race.proc[c].zip_bytes, DOC)

\* the plain text that a list of siblings has once every insertion is taken
\* out with its content and the deleted text of every deletion is text again
\* (in_del: below a deletion wrapper)
RECURSIVE RejectedText(_, _)
RejectedText(kids, in_del) ==
    IF kids = <<>> THEN <<>>
    ELSE LET h == Head(kids)
         IN  (IF h.tag = "ins" THEN <<>>
              ELSE IF h.tag = "del" THEN RejectedText(h.kids, TRUE)
              ELSE IF h.tag = "r" THEN h.text
              ELSE IF h.tag = "rDel" THEN (IF in_del THEN h.text ELSE <<>>)
              ELSE RejectedText(h.kids, in_del))
             \o RejectedText(Tail(kids), in_del)

RejectedAll == last.op = "reject_tracked_changes" /\ last.filter = NoFilter /\ last.res.success

\* C21: after reject-tracked-changes with no filters no insertion or deletion
\* wrapper remains, and the plain text of each paragraph is its plain text
\* before the call without the text inside insertion wrappers and with the
\* deleted text of each deletion wrapper back as text at the wrapper's place.
C21_RejectAllRestoresDeleted ==
    RejectedAll =>
        /\ Wrappers(file) = <<>>
        /\ ParagraphTexts(file) = [i \in 1..Len(DocOf(last.before)) |-> RejectedText(DocOf(last.before)[i].kids, FALSE)]

\* a reject that took out an insertion with its text and restored a deletion
C21_Witness ==
    /\ RejectedAll
    /\ \E i \in 1..Len(Wrappers(last.before)) : Wrappers(last.before)[i].tag = "ins" /\ _paragraph_text(Wrappers(last.before)[i].kids) # <<>>
    /\ \E i \in 1..Len(Wrappers(last.before)) : Wrappers(last.before)[i].tag = "del" /\ DeletedText(Wrappers(last.before)[i]) # <<>>
    /\ ParagraphTexts(file) # ParagraphTexts(last.before)
    /\ Len(ParagraphTexts(file)[1]) > 0

\* the largest numeric id of a document tree, 0 when it has none
LargestNumericId(root) ==
    LET S == {DocNodes(root)[i].id : i \in 1..Len(DocNodes(root))} \cap Nat
    IN  IF S = {} THEN 0 ELSE CHOOSE m \in S : \A x \in S : x <= m

\* a replacing pass leaves, at the place of the first matched run (after the
\* before run when there is one), a deletion with the next id holding
\* old_text as deleted text, followed at once by an insertion with the id
\* after it holding new_text, and counts one replacement
PairPlaced ==
    LET p == loc.root[loc.pi].kids
        mfirst == loc.match[1]
        kids == KidsAt(loc'.root[loc.pi].kids, ParentPath(mfirst.run))
        at == IndexInParent(mfirst.run) + (IF mfirst.s > 0 THEN 1 ELSE 0)
        k == LargestNumericId(loc.root) + 1
        del_elem == kids[at + 1]
        ins_elem == kids[at + 2]
    IN  /\ del_elem.tag = "del" /\ del_elem.id = k /\ del_elem.author = loc.author
        /\ Len(del_elem.kids) = 1 /\ del_elem.kids[1].tag = "rDel" /\ del_elem.kids[1].text = loc.old_text
        /\ ins_elem.tag = "ins" /\ ins_elem.id = k + 1 /\ ins_elem.author = loc.author
        /\ Len(ins_elem.kids) = 1 /\ ins_elem.kids[1].tag = "r" /\ ins_elem.kids[1].text = loc.new_text
        /\ loc'.replacements = loc.replacements + 1
        /\ Len(DocNodes(loc'.root)) - Len(SelectSeq(DocNodes(loc'.root), IsRun)) = Len(DocNodes(loc.root)) - Len(SelectSeq(DocNodes(loc.root), IsRun)) + 2

\* the return of track_replace_in_doc
ReplaceReturning == pc = "track_replace" /\ pc' = "idle"

WrappersWithTag(f, tag) == Len(SelectSeq(Wrappers(f), LAMBDA w : w.tag = tag))

\* the reported count is the number of deletion wrappers and the number of
\* insertion wrappers the call added to the file; without a replacement the
\* call fails and the file is as it was
CountIsPairs ==
    /\ last'.res.count = WrappersWithTag(file', "del") - WrappersWithTag(file, "del")
    /\ last'.res.count = WrappersWithTag(file', "ins") - WrappersWithTag(file, "ins")
    /\ last'.res.success => last'.res.count = loc.replacements
    /\ loc.replacements = 0 => (~last'.res.success /\ file' = file)

\* C22: each replacement of track-replace takes k = largest numeric id of the
\* document tree at that moment + 1, puts a deletion wrapper with id k holding
\* old_text as deleted text at the place of the first matched run and an
\* insertion wrapper with id k + 1 holding new_text right after it; the
\* reported count is the number of pairs added, and a call without a
\* replacement fails and writes nothing.
C22_ReplacementPairs == [][(ReplacingPass => PairPlaced) /\ (ReplaceReturning => CountIsPairs)]_vars

\* a track-replace on a tree that held ids has returned with its pair
C22_Witness ==
    /\ pc = "idle" /\ last.op = "track_replace" /\ last.res.success /\ last.res.count >= 1
    /\ LargestNumericId(DocOf(last.before)) >= 1
    /\ \E i \in 1..Len(Wrappers(file)) :
          /\ Wrappers(file)[i].tag = "del" /\ Wrappers(file)[i].id = LargestNumericId(DocOf(last.before)) + 1
          /\ i < Len(Wrappers(file)) /\ Wrappers(file)[i + 1].tag = "ins" /\ Wrappers(file)[i + 1].id = LargestNumericId(DocOf(last.before)) + 2

\* the ids of the elements of a document tree
TreeIds(f) == {DocNodes(DocOf(f))[i].id : i \in 1..Len(DocNodes(DocOf(f)))}

\* the deletion wrappers of the file whose id the tree did not hold before
\* the last call, in document order
AddedDeletions == SelectSeq(Wrappers(file), LAMBDA w : w.tag = "del" /\ w.id \notin TreeIds(last.before))

DeleteSucceeded == pc = "idle" /\ last.op = "track_delete" /\ last.res.success

\* what a successful track_delete leaves
DeletePost ==
    DeleteSucceeded =>
        /\ \A i \in 1..Len(DocOf(file)) : ~IsSubstring(last.a1, ParagraphTexts(file)[i])
        /\ \A i \in 1..Len(AddedDeletions) :
              /\ AddedDeletions[i].kids = <<AddedDeletions[i].kids[1]>>
              /\ DeletedText(AddedDeletions[i]) = last.a1
              /\ AddedDeletions[i].author = last.a2[1]
              /\ AddedDeletions[i].id \in Nat
              /\ \A j \in 1..Len(AddedDeletions) : AddedDeletions[j].id = AddedDeletions[i].id => j = i
        /\ \A i \in 1..Len(DocOf(file)) :
              Len(ParagraphTexts(last.before)[i]) - Len(ParagraphTexts(file)[i])
                  = (CountTag(DocOf(file)[i].kids, "del") - CountTag(DocOf(last.before)[i].kids, "del")) * Len(last.a1)
        /\ last.res.count = Len(AddedDeletions)
        /\ last.res.count = WrappersWithTag(file, "del") - WrappersWithTag(last.before, "del")

\* C23: track-delete returns for every document and every non-empty text;
\* after a successful one no paragraph's plain text contains the text, every
\* deletion wrapper it added holds exactly the text as deleted text, with the
\* given author and an id of its own that the tree did not hold, each
\* paragraph's plain text is shorter by the number of deletions made in it
\* times the length of the text, and the reported count is the number of
\* wrappers added.
C23_TrackDeleteReturns == [](DeletePost) /\ ((pc = "track_delete") ~> (pc = "idle"))

\* two deletions in one paragraph that already held ids
C23_Witness ==
    /\ DeleteSucceeded /\ last.res.count >= 2
    /\ LargestNumericId(DocOf(last.before)) >= 1
    /\ \E i \in 1..Len(DocOf(file)) : CountTag(DocOf(file)[i].kids, "del") - CountTag(DocOf(last.before)[i].kids, "del") >= 2

RunPaths(p) == PathsOf(p, <<>>, 1, {"r", "rDel", "rRef", "rNone"})

\* the runs below a list of siblings, in document order
RunsOf(p) == [i \in 1..Len(RunPaths(p)) |-> NodeAt(p, RunPaths(p)[i])]

MatchedPaths(match) == {match[i].run : i \in 1..Len(match)}

\* the runs of p that are not matched and come before (side = 0) or after
\* (side = 1) the first matched run in document order
Unmatched(p, match, side) ==
    LET paths == RunPaths(p)
        at == CHOOSE i \in 1..Len(paths) : paths[i] = match[1].run
        keep == SelectSeq(paths, LAMBDA q : q \notin MatchedPaths(match) /\ \E i \in 1..Len(paths) : paths[i] = q /\ (IF side = 0 THEN i < at ELSE i > at))
    IN  [i \in 1..Len(keep) |-> NodeAt(p, keep[i])]

\* what a successful add_hyperlink leaves in the paragraph it changed
HyperlinkPlaced ==
    LET old == DocOf(last.before)
        pi == CHOOSE i \in 1..Len(old) : DocOf(file)[i] # old[i]
        p == old[pi].kids
        q == DocOf(file)[pi].kids
        match == _find_text_in_paragraph(p, last.a1)
        mfirst == match[1]
        mlast == match[Len(match)]
        first_run == NodeAt(p, mfirst.run)
        last_run == NodeAt(p, mlast.run)
        has_before == mfirst.s > 0
        has_after == mlast.e < Len(last_run.text)
        kids == KidsAt(q, ParentPath(mfirst.run))
        at == IndexInParent(mfirst.run) + 1 + (IF has_before THEN 1 ELSE 0)
        before == IF has_before THEN <<Run(SubSeq(first_run.text, 1, mfirst.s), first_run.rpr)>> ELSE <<>>
        after == IF has_after THEN <<Run(SubSeq(last_run.text, mlast.e + 1, Len(last_run.text)), last_run.rpr)>> ELSE <<>>
    IN  /\ \E i \in 1..Len(old) : DocOf(file)[i] # old[i]
        /\ match # None
        /\ ParagraphTexts(file) = ParagraphTexts(last.before)
        /\ kids[at].tag = "hyperlink" /\ Len(kids[at].kids) = 1
        /\ kids[at].kids[1].tag = "r" /\ kids[at].kids[1].text = last.a1
        /\ has_before => kids[at - 1] = before[1]
        /\ has_after => kids[at + 1] = after[1]
        /\ RunsOf(q) = Unmatched(p, match, 0) \o before \o kids[at].kids \o after \o Unmatched(p, match, 1)
        /\ Len(HyperlinksOf(file)) = Len(HyperlinksOf(last.before)) + 1

\* C24: a successful add-hyperlink leaves the paragraph's plain text as it
\* was; the matched runs are gone and in the place of the first one stand a
\* before run (only with text before the match in the first run, with that
\* run's formatting), one hyperlink wrapper holding exactly one run with the
\* search text, and an after run (only with text after the match in the last
\* run, with the last matched run's formatting); the other runs keep their
\* order.
C24_HyperlinkSplice == (last.op = "manage_hyperlinks" /\ last.res.success) => HyperlinkPlaced

\* "ba" linked across the runs "ab" (f1) and "ab" (f2): before run "a" (f1),
\* the wrapper, after run "b" (f2)
C24_Witness ==
    /\ last.op = "manage_hyperlinks" /\ last.res.success /\ calls = 1
    /\ DocOf(orig)[1].kids = <<Run(<<"a", "b">>, "f1"), Run(<<"a", "b">>, "f2")>>
    /\ last.a1 = <<"b", "a">>
    /\ LET kids == DocOf(file)[1].kids
       IN  /\ Len(kids) = 3
           /\ kids[1] = Run(<<"a">>, "f1")
           /\ kids[2].tag = "hyperlink"
           /\ kids[3] = Run(<<"b">>, "f2")

\* the wrappers with a tag below a list of siblings, in document order
WrappersOf(p, tag) == SelectSeq(IterAll(p), LAMBDA n : n.tag = tag)

\* the joined text of the runs with a tag below a wrapper
JoinedText(w, run_tag) == Concat([i \in 1..Len(SelectSeq(IterAll(w.kids), LAMBDA n : n.tag = run_tag)) |-> SelectSeq(IterAll(w.kids), LAMBDA n : n.tag = run_tag)[i].text])

HasDelTextNode(w) == \E i \in 1..Len(IterAll(w.kids)) : IterAll(w.kids)[i].tag = "rDel"

FirstChars(t, n) == [i \in 1..(IF Len(t) < n THEN Len(t) ELSE n) |-> t[i]]

\* the record expected for wrapper w of paragraph p; by_node: the deleted
\* text is taken from the normal text exactly when the deletion has no
\* deleted-text node
Expected(w, p, by_node) ==
    [ id |-> w.id,
      author |-> IF w.author = "" THEN "Unknown" ELSE w.author,
      text |-> IF w.tag = "ins" THEN JoinedText(w, "r")
               ELSE IF by_node THEN (IF HasDelTextNode(w) THEN JoinedText(w, "rDel") ELSE JoinedText(w, "r"))
               ELSE (IF JoinedText(w, "rDel") # <<>> THEN JoinedText(w, "rDel") ELSE JoinedText(w, "r")),
      paragraph_context |-> FirstChars(_paragraph_text(p), 100) ]

ExpectedList(f, tag, by_node) == Concat([i \in 1..Len(DocOf(f)) |-> [j \in 1..Len(WrappersOf(DocOf(f)[i].kids, tag)) |-> Expected(WrappersOf(DocOf(f)[i].kids, tag)[j], DocOf(f)[i].kids, by_node)]])

Listed(by_node) ==
    (last.op = "list_tracked_changes" /\ last.res.success) =>
        /\ file = last.before
        /\ last.res.insertions = ExpectedList(file, "ins", by_node)
        /\ last.res.deletions = ExpectedList(file, "del", by_node)
        /\ last.res.total_insertions = Len(last.res.insertions)
        /\ last.res.total_deletions = Len(last.res.deletions)
        /\ last.res.count = Len(last.res.insertions) + Len(last.res.deletions)
        /\ \A i \in 1..Len(last.res.insertions) : Len(last.res.insertions[i].paragraph_context) <= 100

\* C25 as stated: list-tracked-changes leaves the file as it is and returns
\* one record per insertion wrapper and one per deletion wrapper, each list in
\* document order, with id, author, text and the first 100 characters of the
\* paragraph; a deletion's text is that of its deleted-text nodes, and of its
\* normal text nodes only when it has no deleted-text node; the totals are the
\* list lengths and their sum.
C25_AsStated == Listed(TRUE)

\* C25, amended: the same, but a deletion's text is that of its normal text
\* nodes whenever its deleted-text nodes hold no text, also when it has
\* deleted-text nodes that are empty.
C25_ListRecords == Listed(FALSE)

\* a listing of two insertions and one deletion of a paragraph that is longer
\* than the context
C25_Witness ==
    /\ last.op = "list_tracked_changes" /\ last.res.success
    /\ last.res.total_insertions = 2 /\ last.res.total_deletions >= 1
    /\ \E i \in 1..Len(DocOf(file)) : Len(_paragraph_text(DocOf(file)[i].kids)) > 100
    /\ \E i \in 1..2 : Len(last.res.insertions[i].paragraph_context) = 100
    /\ last.res.deletions[1].text # <<>>

-----------------------------------------------------------------------------
(* The save hook *)

\* a save through the hooked path has returned
HookedSave == last.op = "save" /\ ext.at = "idle" /\ ext.log # <<>> /\ Head(ext.log) = "extract"

CustomNames(zip) == {CUSTOM_PARTS_TO_PRESERVE[i] : i \in {j \in 1..Len(CUSTOM_PARTS_TO_PRESERVE) : HasPart(zip, CUSTOM_PARTS_TO_PRESERVE[j])}}

\* the file that was at the path is an archive
Readable(f) == f.exists /\ IsArchive(f.entries)

\* its manifest and its content types, where present, are XML
Parses(zip) ==
    /\ HasPart(zip, RELS) => _load_zip_part(zip, RELS) # NotXml
    /\ HasPart(zip, CTYPES) => _load_zip_part(zip, CTYPES) # NotXml

PartOr(zip, name) == IF HasPart(zip, name) /\ _load_zip_part(zip, name) # NotXml THEN _load_zip_part(zip, name) ELSE <<>>

OldCommentRels == SelectSeq(PartOr(last.before.entries, RELS), LAMBDA r : r.type \in COMMENT_REL_TYPES)

OldCommentOverrides == SelectSeq(PartOr(last.before.entries, CTYPES), LAMBDA o : o.part \in CommentPartNames)

RelTypes(rels) == {rels[i].type : i \in 1..Len(rels)}

\* the comments parts were read from the old file
Extracted == Readable(last.before) /\ Parses(last.before.entries) /\ CustomNames(last.before.entries) # {}

\* re-injection fails: a relationship it has to add carries no id
ReinjectRaises ==
    /\ Extracted
    /\ HasPart(ext.plain.entries, RELS)
    /\ \E i \in 1..Len(OldCommentRels) :
          /\ OldCommentRels[i].rid = NoId
          /\ OldCommentRels[i].type \notin RelTypes(PartOr(ext.plain.entries, RELS))
          /\ \A j \in 1..(i - 1) : OldCommentRels[j].type # OldCommentRels[i].type

\* every comments part of the old file is in the new one, with the bytes the
\* save wrote under that name, else with the old bytes
PartsKept ==
    \A n \in CustomNames(last.before.entries) :
        /\ HasPart(file.entries, n)
        /\ _load_zip_part(file.entries, n) = IF HasPart(ext.plain.entries, n) THEN _load_zip_part(ext.plain.entries, n) ELSE _load_zip_part(last.before.entries, n)

\* the manifest is the saved one followed by preserved relationships of
\* types it lacked, one per type, under ids it did not use
RelsPatched ==
    LET was == PartOr(ext.plain.entries, RELS)
        now == PartOr(file.entries, RELS)
    IN  /\ Len(now) >= Len(was)
        /\ SubSeq(now, 1, Len(was)) = was
        /\ \A i \in (Len(was) + 1)..Len(now) :
              /\ now[i].type \notin RelTypes(was)
              /\ \E k \in 1..Len(OldCommentRels) : OldCommentRels[k].type = now[i].type /\ OldCommentRels[k].target = now[i].target
              /\ \A j \in 1..Len(now) : j # i => (now[j].rid # now[i].rid /\ now[j].type # now[i].type)

\* the content types are the saved ones followed by preserved overrides for
\* part names that had none
TypesPatched ==
    LET was == PartOr(ext.plain.entries, CTYPES)
        now == PartOr(file.entries, CTYPES)
    IN  /\ Len(now) >= Len(was)
        /\ SubSeq(now, 1, Len(was)) = was
        /\ \A i \in (Len(was) + 1)..Len(now) :
              /\ \E k \in 1..Len(OldCommentOverrides) : OldCommentOverrides[k] = now[i]
              /\ \A j \in 1..Len(now) : j # i => now[j].part # now[i].part

\* every other entry of the saved archive is copied as it is, and only
\* preserved parts are added
OthersCopied ==
    LET was == ext.plain.entries
        now == file.entries
    IN  /\ Len(now) >= Len(was)
        /\ \A i \in 1..Len(was) : now[i].name = was[i].name /\ (was[i].name \notin {RELS, CTYPES} => now[i] = was[i])
        /\ \A i \in (Len(was) + 1)..Len(now) : now[i].name \in CustomNames(last.before.entries) /\ ~HasPart(was, now[i].name)

\* no preserved relationship type and no preserved override is left out
AllReinjected ==
    /\ \A k \in 1..Len(OldCommentRels) : HasPart(ext.plain.entries, RELS) => OldCommentRels[k].type \in RelTypes(PartOr(file.entries, RELS))
    /\ \A k \in 1..Len(OldCommentOverrides) : HasPart(ext.plain.entries, CTYPES) =>
          \E i \in 1..Len(PartOr(file.entries, CTYPES)) : PartOr(file.entries, CTYPES)[i].part = OldCommentOverrides[k].part

\* the order of the steps, the single wrap and the untouched stream save
HookDiscipline ==
    /\ ext.wraps <= 1
    /\ ext.log \in {<<>>, <<"save">>, <<"stream">>, <<"extract">>, <<"extract", "save">>, <<"extract", "save", "reinject">>}
    /\ ext.at = "extracted" => file = ext.before
    /\ (last.op = "save" /\ ext.log = <<"stream">>) => file = last.before
    /\ HookedSave => (RelsPatched /\ TypesPatched /\ OthersCopied)
    /\ (HookedSave /\ ReinjectRaises) => file = ext.plain

\* C26 as stated: after a hooked path save every comments part that the file
\* held before is present, with the old bytes unless the save wrote a part
\* of that name, whenever re-injection did not fail; the manifest and the
\* content types are patched without duplicates, the other entries are
\* copied, a failed re-injection leaves the plain save, a stream save leaves
\* the file alone and the save is wrapped once.
C26_AsStated ==
    /\ HookDiscipline
    /\ (HookedSave /\ Readable(last.before) /\ ~ReinjectRaises) => PartsKept

\* C26: the same, where the comments parts are promised only if they could be
\* read from the old file, that is if its manifest and its content types
\* parse; otherwise the plainly saved file stays.
C26_TwoPhaseSave ==
    /\ HookDiscipline
    /\ (HookedSave /\ Extracted /\ ~ReinjectRaises) => (PartsKept /\ AllReinjected)
    /\ (HookedSave /\ ~Extracted) => file = ext.plain

\* a hooked save over a file with a comments part that the saved document
\* lacks: the part is back with its bytes, under a relationship whose id had
\* to be replaced
C26_Witness ==
    /\ HookedSave
    /\ ext.log = <<"extract", "save", "reinject">>
    /\ HasPart(last.before.entries, COMMENTS)
    /\ ~HasPart(ext.plain.entries, COMMENTS)
    /\ HasPart(file.entries, COMMENTS)
    /\ _load_zip_part(file.entries, COMMENTS) = _load_zip_part(last.before.entries, COMMENTS)
    /\ \E i \in 1..Len(PartOr(file.entries, RELS)) :
          /\ PartOr(file.entries, RELS)[i].type = COMMENTS_REL_TYPE
          /\ \A k \in 1..Len(OldCommentRels) : OldCommentRels[k].rid # PartOr(file.entries, RELS)[i].rid

-----------------------------------------------------------------------------
(* The undo grouping *)

\* C30: in every use of the undo grouping, a record that was started is
\* ended by exactly one attempt, made after the block is left, normally or
\* by an exception; an exception of the block reaches the caller and nothing
\* else does, also when ending the record fails; when starting the record
\* fails the block still runs and no end is attempted.
C30_UndoGrouping ==
    /\ ext.at \in {"block", "finally"} => ext.ends = 0
    /\ (ext.at = "done" /\ calls > 0) =>
          /\ ext.ends = IF ext.has_rec THEN 1 ELSE 0
          /\ ext.propagated = ext.raised
          /\ ext.end_failed => ext.has_rec
    /\ ext.at = "block" => (ext.muts <= MaxMutations /\ ~ext.raised /\ ~ext.propagated)
    /\ ext.label <= UndoNameLen

\* a use whose record was started, whose block raised after a mutation and
\* whose end failed: one end attempt, the block's exception propagates
C30_Witness ==
    /\ ext.at = "done"
    /\ ext.has_rec
    /\ ext.muts > 0
    /\ ext.raised
    /\ ext.end_failed
    /\ ext.ends = 1
    /\ ext.propagated

-----------------------------------------------------------------------------
(* The count of accept and reject *)

\* the wrappers of f that satisfy the filter
Satisfying(f, filter) == SelectSeq(Wrappers(f), LAMBDA w : _should_process(w, filter))

\* C28: the count returned by accept-tracked-changes and by
\* reject-tracked-changes is the number of insertion and deletion wrappers
\* that satisfied the filter when the call started, and with no filters it
\* is the total_changes that list-tracked-changes reports on the same file.
C28_CountIsSatisfying ==
    (last.op \in {"accept_tracked_changes", "reject_tracked_changes"} /\ last.res.success) =>
        /\ last.res.count = Len(Satisfying(last.before, last.filter))
        /\ last.filter = NoFilter => last.res.count = list_tracked_changes(last.before).res.count

-----------------------------------------------------------------------------
(* Deleting and rejecting; deleted and inserted text as search targets *)

\* the reject that follows a track-delete on a document without tracked changes
RejectedDelete == last.op = "reject_tracked_changes" /\ last.res.success /\ calls = 2 /\ Wrappers(orig) = <<>>

\* C27: on a document without tracked changes, track-delete(text) followed by
\* reject-tracked-changes with no filters leaves every paragraph with the
\* plain text it had before the delete.
C27_DeleteRejectRestores == RejectedDelete => ParagraphTexts(file) = ParagraphTexts(orig)

\* no match of any search text in any paragraph includes a run of deleted text
NoDeletedRunMatched ==
    \A i \in 1..Len(DocOf(file)), t \in RepeatTexts :
        \A match \in {_find_text_in_paragraph(DocOf(file)[i].kids, t)} :
            match # None => \A k \in 1..Len(match) : NodeAt(DocOf(file)[i].kids, match[k].run).tag = "r"

\* the text of every run of normal text is found, also inside an insertion
InsertedTextEligible ==
    \A i \in 1..Len(DocOf(file)) :
        \A path \in {TextRunPaths(DocOf(file)[i].kids)[k] : k \in 1..Len(TextRunPaths(DocOf(file)[i].kids))} :
            \A run \in {NodeAt(DocOf(file)[i].kids, path)} :
                run.text # <<>> => _find_text_in_paragraph(DocOf(file)[i].kids, run.text) # None

\* the insertion wrapper in which the first match of the call started, if any
StartIns ==
    LET root == DocOf(last.before)
        pi == FirstMatch(root, last.a1, 1)
    IN  IF pi = 0 THEN {}
        ELSE {NodeAt(root[pi].kids, ParentPath(match[1].run)) : match \in {m \in {_find_text_in_paragraph(root[pi].kids, last.a1)} : Len(m[1].run) > 1}}

\* the deletion made for that match is a child of that insertion wrapper
DeletionInsideIns ==
    (last.op = "track_delete" /\ last.res.success) =>
        \A ins \in {w \in StartIns : w.tag = "ins"} :
            \E i \in 1..Len(DocNodes(DocOf(file))) :
                /\ DocNodes(DocOf(file))[i].tag = "ins"
                /\ DocNodes(DocOf(file))[i].id = ins.id
                /\ \E k \in 1..Len(DocNodes(DocOf(file))[i].kids) :
                      /\ DocNodes(DocOf(file))[i].kids[k].tag = "del"
                      /\ DocNodes(DocOf(file))[i].kids[k].id \in last.allocated

\* a successful track-delete(text) called again with the same text
Repeated == last.op = "track_delete" /\ last.res.success /\ last'.op = "track_delete" /\ last'.a1 = last.a1 /\ calls' = calls + 1

\* C29: no match includes a run whose text is stored as deleted text, so a
\* successful track-delete(text) repeated on its own result fails with "Text
\* not found" and leaves the file unchanged; the text of a run inside an
\* insertion wrapper is still found, and the deletion made for a match that
\* starts there is put inside that insertion wrapper.
C29_DeletedTextNotSearched ==
    /\ [](NoDeletedRunMatched /\ InsertedTextEligible /\ DeletionInsideIns)
    /\ [][Repeated => (~last'.res.success /\ last'.res.error = "Text not found" /\ file' = file)]_vars

\* a repeated track-delete has failed on a file that holds deleted text, or a
\* deletion has been made inside the insertion where its match started
C29_Witness ==
    /\ last.op = "track_delete"
    /\ calls = 2
    /\ \/ /\ ~last.res.success
          /\ \E i \in 1..Len(Wrappers(last.before)) : Wrappers(last.before)[i].tag = "del" /\ _paragraph_text(Wrappers(last.before)[i].kids) = <<>> /\ Wrappers(last.before)[i].kids[1].text = last.a1
       \/ /\ last.res.success
          /\ \E w \in StartIns : w.tag = "ins"

====
